---- MODULE Spec2Model ----
(***************************************************************************)
(* A model of the arshin units-of-measure library: the Dimension algebra   *)
(* (fundamentals.rs), the transformations (transformations.rs), Unit       *)
(* composition (units.rs), Quantity arithmetic (quantities.rs), the unit   *)
(* registry (registry.rs) and the catalogue parser (parser.rs).            *)
(*                                                                         *)
(* Numbers.  Dimension exponents are i32 and are modelled as integers      *)
(* whose magnitude the guards of the actions keep within MaxExp.           *)
(* Magnitudes, scales and offsets are f64; they are modelled as            *)
(* <<numerator, denominator, decimal exponent>>, the value                 *)
(* (numerator / denominator) * 10^exponent in a unique normal form.  The   *)
(* actions only apply f64 operations that the f64 arithmetic computes      *)
(* without rounding (operands and result held exactly by an f64, or a      *)
(* scaling by a power of two), with numerator and denominator within       *)
(* MaxNum, or a sum one term of which is too small to change the other     *)
(* (the sum rounds to the larger term).  Infinities, NaN and signed zero    *)
(* never arise.                                                            *)
(*                                                                         *)
(* A call that panics is modelled by the outcome Panic; a call that        *)
(* returns is modelled by Ok(value).                                       *)
(***************************************************************************)
EXTENDS Integers, Sequences, FiniteSets, TLC

VARIABLES
    dim,    \* Dimension machine: the Dimension value held by the caller
    dlog,   \* Dimension machine: the last operation applied
    unit,   \* Unit machine: the Unit value held by the caller
    ulog,   \* Unit machine: the last operation applied
    qx,     \* Quantity machine: the Quantity held by the caller
    qlog,   \* Quantity machine: the last operation applied
    registry,   \* Registry machine: the units map of the UnitRegistry
    rlog,       \* Registry machine: the last call and what it returned
    pdoc,   \* Parser machine: the definitions of the document being parsed
    ppos,   \* Parser machine: the number of definitions worked through
    preg,   \* Parser machine: the local registry of parse_units_file
    pout,   \* Parser machine: Running, or the way parse_units_file was left
    tr,     \* Transformation machine: the transformation held by the caller
    tlog    \* Transformation machine: the last call and what it returned

vars == <<dim, dlog, unit, ulog, qx, qlog, registry, rlog, pdoc, ppos, preg,
          pout, tr, tlog>>

dimVars == <<dim, dlog>>

unitVars == <<unit, ulog>>

qtyVars == <<qx, qlog>>

regVars == <<registry, rlog>>

parseVars == <<pdoc, ppos, preg, pout>>

transVars == <<tr, tlog>>

(***************************************************************************)
(* Bounds of the model.                                                    *)
(***************************************************************************)
\* largest absolute value of a Dimension exponent the Dimension machine reaches
MaxExp == 2

\* largest absolute value of an exponent in a composite Unit or Quantity
MaxUnitExp == 2

\* largest numerator or denominator of a modelled f64 value
MaxNum == 100000000

\* largest number of decimal places two terms of an exact sum may differ by
MaxShift == 8

(***************************************************************************)
(* Outcomes of calls.                                                      *)
(***************************************************************************)
NoValue == [none |-> TRUE]

Panic == [status |-> "panic", value |-> NoValue]

Ok(v) == [status |-> "ok", value |-> v]

Err(e) == [status |-> "err", value |-> e]

(***************************************************************************)
(* f64 values as decimal-scaled rationals.  A triple <<n, d, e>> stands    *)
(* for the f64 nearest to (n/d) * 10^e: for the value itself when an f64   *)
(* holds it exactly, for the rounded literal otherwise (0.1, 1e-3, 1e30).  *)
(* The operators below compute on the rationals; the guards MulExact,      *)
(* DivExact, AddExact, SubExact and PowExact admit an operation only where *)
(* the f64 operation on the values stood for returns the f64 standing for  *)
(* the rational result, so that no rounding of the code is left out.       *)
(***************************************************************************)
Abs(x) == IF x < 0 THEN -x ELSE x

RECURSIVE GCD(_, _)
GCD(a, b) == IF b = 0 THEN a ELSE GCD(b, a % b)

RECURSIVE IntPow(_, _)
IntPow(b, e) == IF e = 0 THEN 1 ELSE b * IntPow(b, e - 1)

\* the normal form of (n/d) * 10^e for n/d in lowest terms, d > 0: the
\* numerator is not a multiple of 10 and the denominator is prime to 10
RECURSIVE Normal(_, _, _)
Normal(n, d, e) ==
    IF n = 0 THEN <<0, 1, 0>>
    ELSE IF n % 10 = 0 THEN Normal(n \div 10, d, e + 1)
    ELSE IF d % 10 = 0 THEN Normal(n, d \div 10, e - 1)
    ELSE IF d % 2 = 0 THEN Normal(n * 5, d \div 2, e - 1)
    ELSE IF d % 5 = 0 THEN Normal(n * 2, d \div 5, e - 1)
    ELSE <<n, d, e>>

\* the value (n/d) * 10^e (d # 0)
Dec(n, d, e) ==
    LET g == GCD(Abs(n), Abs(d))
        s == IF d < 0 THEN -1 ELSE 1
    IN  Normal((s * n) \div g, (s * d) \div g, e)

\* the rational n/d (d # 0)
Rat(n, d) == Dec(n, d, 0)

Num(i) == Rat(i, 1)

\* the number of decimal digits of a positive integer, less one
RECURSIVE Digits(_)
Digits(x) == IF x < 10 THEN 0 ELSE 1 + Digits(x \div 10)

\* |a| < 10^MagHigh(a) and 10^MagLow(a) <= |a|, for a # 0
MagHigh(a) == a[3] + Digits(Abs(a[1])) + 1 - Digits(a[2])

MagLow(a) == a[3] + Digits(Abs(a[1])) - Digits(a[2]) - 1

\* an f64 carries 53 significant bits: a term below 10^-17 of the other one
\* is less than half a unit in its last place
F64AbsorbDecades == 17

\* the f64 sum big + small rounds to big
Absorbs(big, small) ==
    IF big[1] = 0 \/ small[1] = 0 THEN FALSE
    ELSE MagHigh(small) + F64AbsorbDecades <= MagLow(big)

\* the numerator of a once its decimal exponent is lowered to e
Shift(a, e) == a[1] * IntPow(10, a[3] - e)

ExactAdd(a, b) ==
    LET e == IF a[3] < b[3] THEN a[3] ELSE b[3]
    IN  Dec(Shift(a, e) * b[2] + Shift(b, e) * a[2], a[2] * b[2], e)

F64Neg(a) == <<-a[1], a[2], a[3]>>

F64Add(a, b) ==
    IF b[1] = 0 THEN a
    ELSE IF a[1] = 0 THEN b
    ELSE IF Absorbs(a, b) THEN a
    ELSE IF Absorbs(b, a) THEN b
    ELSE ExactAdd(a, b)

F64Sub(a, b) == F64Add(a, F64Neg(b))

F64Mul(a, b) == Dec(a[1] * b[1], a[2] * b[2], a[3] + b[3])

F64Div(a, b) == Dec(a[1] * b[2], a[2] * b[1], a[3] - b[3])

\* f64::powf with an integral exponent: powf(x, 0) = 1, negative exponents
\* take the reciprocal
F64Pow(a, n) ==
    IF n >= 0 THEN Dec(IntPow(a[1], n), IntPow(a[2], n), a[3] * n)
    ELSE Dec(IntPow(a[2], -n), IntPow(a[1], -n), a[3] * n)

\* a product of two integers stays within MaxNum
MulFits(x, y) ==
    IF x = 0 \/ y = 0 THEN TRUE ELSE Abs(x) <= MaxNum \div Abs(y)

RECURSIVE IntPowFits(_, _)
IntPowFits(b, e) ==
    IF e = 0 THEN TRUE
    ELSE IntPowFits(b, e - 1) /\ MulFits(b, IntPow(b, e - 1))

\* every intermediate integer of a product or a quotient stays within MaxNum
MulDivFits(a, b) ==
    /\ MulFits(a[1], b[2]) /\ MulFits(b[1], a[2])
    /\ MulFits(a[2], b[2]) /\ MulFits(a[1], b[1])

\* a sum or a difference either rounds to one of its terms or is computed
\* exactly with every intermediate integer within MaxNum
AddFits(a, b) ==
    IF a[1] = 0 \/ b[1] = 0 THEN TRUE
    ELSE IF Absorbs(a, b) \/ Absorbs(b, a) THEN TRUE
    ELSE LET e == IF a[3] < b[3] THEN a[3] ELSE b[3]
         IN  IF a[3] - e > MaxShift \/ b[3] - e > MaxShift THEN FALSE
             ELSE IF ~(MulFits(a[1], IntPow(10, a[3] - e))
                       /\ MulFits(b[1], IntPow(10, b[3] - e))) THEN FALSE
             ELSE /\ MulFits(Shift(a, e), b[2])
                  /\ MulFits(Shift(b, e), a[2])
                  /\ MulFits(a[2], b[2])

PowFits(a, n) == IntPowFits(a[1], Abs(n)) /\ IntPowFits(a[2], Abs(n))

\* every integer below 10^15 is below 2^53 and is held by an f64 exactly
F64ExactDecades == 15

\* an f64 holds the value exactly: an integer below 10^15, or such an
\* integer divided by a power of two (in normal form: no denominator, and
\* the numerator takes up the powers of five of a negative exponent)
ExactF64(a) ==
    IF a[1] = 0 THEN TRUE
    ELSE IF a[2] # 1 THEN FALSE
    ELSE IF a[3] >= 0 THEN MagHigh(a) <= F64ExactDecades
    ELSE IF -a[3] > 13 THEN FALSE
    ELSE a[1] % IntPow(5, -a[3]) = 0

\* every f64 from 1e-307 up to, but not including, 1e307 in magnitude is a
\* normal number: it carries the full 53 bits and is neither an infinity
\* nor a subnormal
F64NormalDecades == 307

\* zero, or a value within the range of the normal f64
F64Normal(a) ==
    IF a[1] = 0 THEN TRUE
    ELSE MagLow(a) >= -F64NormalDecades /\ MagHigh(a) <= F64NormalDecades

\* plus or minus a power of two: 2^i, or 1 / 2^j = 5^j / 10^j
IsPow2(a) ==
    IF a[2] # 1 THEN FALSE
    ELSE IF a[3] = 0 THEN \E i \in 0..30 : Abs(a[1]) = IntPow(2, i)
    ELSE IF a[3] > 0 \/ -a[3] > 13 THEN FALSE
    ELSE Abs(a[1]) = IntPow(5, -a[3])

\* the f64 product is the value F64Mul gives: the factors and the product
\* are within the normal range, and a factor is zero or a power of two
\* (scaling a normal f64 by a power of two to a normal f64 never rounds), or
\* the factors and the product are all held exactly
MulExact(a, b) ==
    IF ~MulDivFits(a, b) THEN FALSE
    ELSE IF ~(F64Normal(a) /\ F64Normal(b) /\ F64Normal(F64Mul(a, b)))
    THEN FALSE
    ELSE IF a[1] = 0 \/ b[1] = 0 THEN TRUE
    ELSE IF IsPow2(a) \/ IsPow2(b) THEN TRUE
    ELSE ExactF64(a) /\ ExactF64(b) /\ ExactF64(F64Mul(a, b))

\* the f64 quotient is the value F64Div gives: the divisor is not zero, the
\* operands and the quotient are within the normal range, and the dividend
\* is zero, or the divisor is a power of two or the dividend itself, or the
\* operands and the quotient are all held exactly
DivExact(a, b) ==
    IF b[1] = 0 \/ ~MulDivFits(a, b) THEN FALSE
    ELSE IF ~(F64Normal(a) /\ F64Normal(b) /\ F64Normal(F64Div(a, b)))
    THEN FALSE
    ELSE IF a[1] = 0 \/ a = b THEN TRUE
    ELSE IF IsPow2(b) THEN TRUE
    ELSE ExactF64(a) /\ ExactF64(b) /\ ExactF64(F64Div(a, b))

\* the f64 sum is the value F64Add gives: a term is zero, one term absorbs
\* the other, the terms cancel, or the terms and the sum are all held
\* exactly
AddExact(a, b) ==
    IF ~AddFits(a, b) THEN FALSE
    ELSE IF ~(F64Normal(a) /\ F64Normal(b)) THEN FALSE
    ELSE IF a[1] = 0 \/ b[1] = 0 THEN TRUE
    ELSE IF Absorbs(a, b) \/ Absorbs(b, a) THEN TRUE
    ELSE IF a = F64Neg(b) THEN TRUE
    ELSE ExactF64(a) /\ ExactF64(b) /\ ExactF64(ExactAdd(a, b))

SubExact(a, b) == AddExact(a, F64Neg(b))

\* powf gives the value F64Pow gives: the power is 0 or 1, or the base and
\* the result are held exactly; a zero base takes no negative power
PowExact(a, n) ==
    IF ~PowFits(a, n) THEN FALSE
    ELSE IF n < 0 /\ a[1] = 0 THEN FALSE
    ELSE IF ~(F64Normal(a) /\ F64Normal(F64Pow(a, n))) THEN FALSE
    ELSE IF n = 0 \/ n = 1 THEN TRUE
    ELSE ExactF64(a) /\ ExactF64(F64Pow(a, n))

\* the integer an integral f64 value stands for
IntOf(x) == x[1] * IntPow(10, x[3])

(***************************************************************************)
(* fundamentals.rs: the Dimension algebra.                                 *)
(***************************************************************************)
FUNDAMENTALS_NUMBER == 10

Axes == 1..FUNDAMENTALS_NUMBER

\* Fundamentals::to_index, 1-based
Mass == 1

Length == 2

Time == 3

Current == 4

Temperature == 5

AmountOfSubstance == 6

LuminousIntensity == 7

Angle == 8

Bit == 9

Count == 10

\* the first nine exponents are all zero
NonCountZero(powers) == \A i \in 1..(FUNDAMENTALS_NUMBER - 1) : powers[i] = 0

\* a faulty variant of Dimension_new that copies the count exponent instead of
\* forcing it
Dimension_new_KeepCount(powers) ==
    IF NonCountZero(powers)
    THEN [i \in Axes |-> IF i = FUNDAMENTALS_NUMBER THEN 1 ELSE 0]
    ELSE [i \in Axes |-> powers[i]]

Dimension_new(powers) ==
    IF NonCountZero(powers)
    THEN [i \in Axes |-> IF i = FUNDAMENTALS_NUMBER THEN 1 ELSE 0]
    ELSE [i \in Axes |-> IF i = FUNDAMENTALS_NUMBER THEN 0 ELSE powers[i]]

new_from_fundamental(fundamental) ==
    [i \in Axes |-> IF i = fundamental THEN 1 ELSE 0]

\* a faulty variant of Dimension_mul that returns the added exponents as
\* they are
Dimension_mul_Raw(self, rhs) == [i \in Axes |-> self[i] + rhs[i]]

Dimension_mul(self, rhs) ==
    Dimension_new([i \in Axes |-> self[i] + rhs[i]])

\* a faulty variant of Dimension_div that adds the exponents as Dimension_mul does
Dimension_div_Adds(self, rhs) ==
    Dimension_new([i \in Axes |-> self[i] + rhs[i]])

Dimension_div(self, rhs) ==
    Dimension_new([i \in Axes |-> self[i] - rhs[i]])

\* a faulty variant of Dimension_pow that returns the multiplied exponents as
\* they are
Dimension_pow_Raw(self, power) == [i \in Axes |-> self[i] * power]

\* the source narrows power from i64 to i32 before multiplying; the powers
\* handed in here lie within i32, where the narrowing changes nothing
Dimension_pow(self, power) ==
    Dimension_new([i \in Axes |-> self[i] * power])

MASS == new_from_fundamental(Mass)

LENGTH == new_from_fundamental(Length)

TIME == new_from_fundamental(Time)

CURRENT == new_from_fundamental(Current)

TEMPERATURE == new_from_fundamental(Temperature)

AMOUNT_OF_SUBSTANCE == new_from_fundamental(AmountOfSubstance)

LUMINOUS_INTENSITY == new_from_fundamental(LuminousIntensity)

ANGLE == new_from_fundamental(Angle)

BIT == new_from_fundamental(Bit)

COUNT == new_from_fundamental(Count)

BaseConstants ==
    {MASS, LENGTH, TIME, CURRENT, TEMPERATURE, AMOUNT_OF_SUBSTANCE,
     LUMINOUS_INTENSITY, ANGLE, BIT, COUNT}

\* every exponent of a vector is within the bound b
WithinExp(powers, b) == \A i \in Axes : Abs(powers[i]) <= b

(***************************************************************************)
(* The Dimension machine: a caller holds a Dimension obtained through the  *)
(* public interface and applies new / mul / div / pow to it.               *)
(***************************************************************************)
\* exponent vectors handed to Dimension::new, canonical or not
RawVectors ==
    { [i \in Axes |-> IF i = Mass THEN m ELSE IF i = Length THEN l
                      ELSE IF i = Count THEN c ELSE 0] :
        m \in {0, 1}, l \in {-1, 0}, c \in {0, 2} }

\* right operands of mul and div: Dimensions the public interface yields
DimOperands ==
    {LENGTH, COUNT, Dimension_pow(LENGTH, -1), Dimension_div(MASS, LENGTH)}

\* powers handed to Dimension::pow
DimPowers == {-1, 0, 1, 2}

NoMul == [op |-> "none"]

\* the log of a call: its name, argument, receiver and result, and, when the
\* call before it was a mul, that mul's operand and receiver
DimEntry(op, arg, before, after) ==
    [op |-> op, arg |-> arg, before |-> before, after |-> after,
     mul |-> IF dlog.op = "mul"
             THEN [op |-> "mul", arg |-> dlog.arg, before |-> dlog.before]
             ELSE NoMul]

DimInit ==
    /\ dim \in BaseConstants
    /\ dlog = [op |-> "const", after |-> dim, mul |-> NoMul]

DimNewOp ==
    \E powers \in RawVectors :
        /\ dim' = Dimension_new(powers)
        /\ dlog' = DimEntry("new", powers, dim, dim')

DimMulOp ==
    \E rhs \in DimOperands :
        /\ WithinExp(Dimension_mul(dim, rhs), MaxExp)
        /\ dim' = Dimension_mul(dim, rhs)
        /\ dlog' = DimEntry("mul", rhs, dim, dim')

DimDivOp ==
    \E rhs \in DimOperands :
        /\ WithinExp(Dimension_div(dim, rhs), MaxExp)
        /\ dim' = Dimension_div(dim, rhs)
        /\ dlog' = DimEntry("div", rhs, dim, dim')

DimPowOp ==
    \E power \in DimPowers :
        /\ WithinExp(Dimension_pow(dim, power), MaxExp)
        /\ dim' = Dimension_pow(dim, power)
        /\ dlog' = DimEntry("pow", power, dim, dim')

\* the caller multiplies two powers of the Dimension held
DimPowMulPowOp ==
    \E n \in DimPowers, m \in DimPowers :
        /\ WithinExp(Dimension_pow(dim, n), MaxExp)
        /\ WithinExp(Dimension_pow(dim, m), MaxExp)
        /\ WithinExp(Dimension_pow(dim, n + m), MaxExp)
        /\ dlog' = [op |-> "pow_mul_pow", n |-> n, m |-> m, before |-> dim,
                    after |-> Dimension_mul(Dimension_pow(dim, n),
                                            Dimension_pow(dim, m)),
                    mul |-> NoMul]
        /\ UNCHANGED dim

\* the caller multiplies the Dimension held by one of its powers
DimMulPowOp ==
    \E m \in DimPowers :
        /\ WithinExp(Dimension_pow(dim, m), MaxExp)
        /\ WithinExp(Dimension_pow(dim, 1 + m), MaxExp)
        /\ dlog' = [op |-> "mul_pow", m |-> m, before |-> dim,
                    after |-> Dimension_mul(dim, Dimension_pow(dim, m)),
                    mul |-> NoMul]
        /\ UNCHANGED dim

\* the caller multiplies the Dimension held by itself
DimMulSelfOp ==
    /\ WithinExp(Dimension_pow(dim, 2), MaxExp)
    /\ dlog' = [op |-> "mul_self", before |-> dim,
                after |-> Dimension_mul(dim, dim), mul |-> NoMul]
    /\ UNCHANGED dim

(***************************************************************************)
(* The exponents at their width.  FundamentalsPowersType is i32 and the    *)
(* power of Dimension::pow is an i64 narrowed with `as`.  An i32 operation *)
(* that leaves the range aborts in a build with overflow checks and wraps  *)
(* modulo 2^32 in a build without them.                                    *)
(***************************************************************************)
I32_MAX == 2147483647

I32_MIN == (-I32_MAX) - 1

\* the exact sum a + b is not an i32
AddOverflows(a, b) ==
    IF b >= 0 THEN a > I32_MAX - b ELSE a < I32_MIN - b

\* a + b modulo 2^32, as an i32
WrappingAdd(a, b) ==
    IF ~AddOverflows(a, b) THEN a + b
    ELSE IF b >= 0 THEN ((a - I32_MAX) + (b - I32_MAX)) - 2
    ELSE ((a + I32_MAX) + (b + I32_MAX)) + 2

\* the exact difference a - b is not an i32
SubOverflows(a, b) ==
    IF b >= 0 THEN a < I32_MIN + b ELSE a > I32_MAX + b

\* a - b modulo 2^32, as an i32
WrappingSub(a, b) ==
    IF ~SubOverflows(a, b) THEN a - b
    ELSE IF b >= 0 THEN ((a + I32_MAX) - (b - I32_MAX)) + 2
    ELSE ((a - I32_MAX) - (b + I32_MAX)) - 2

\* the exact product a * b is not an i32
MulOverflows(a, b) ==
    IF a = 0 \/ b = 0 THEN FALSE
    ELSE IF a > 0 /\ b > 0 THEN a > I32_MAX \div b
    ELSE IF a > 0 THEN b < (I32_MIN + (a - 1)) \div a
    ELSE IF b > 0 THEN a < (I32_MIN + (b - 1)) \div b
    ELSE IF a = I32_MIN \/ b = I32_MIN THEN TRUE
    ELSE (-a) > I32_MAX \div (-b)

\* the lower and the upper 16 bits of an i32
Low16(x) == x % 65536

High16(x) == (x \div 65536) % 65536

\* the lower 16 bits of the product of two 16-bit numbers
MulLow16(x, y) ==
    ((((x \div 256) * y) % 256) * 256 + (x % 256) * y) % 65536

\* the upper 16 bits of the product of two 16-bit numbers
MulHigh16(x, y) ==
    (((x \div 256) * y) \div 256)
        + (((((x \div 256) * y) % 256) * 256 + (x % 256) * y) \div 65536)

\* a * b modulo 2^32, as an i32, from the 16-bit halves of a and b
WrappingMul(a, b) ==
    LET lo == MulLow16(Low16(a), Low16(b))
        hi == (MulHigh16(Low16(a), Low16(b))
                 + MulLow16(High16(a), Low16(b))
                 + MulLow16(Low16(a), High16(b))) % 65536
    IN  IF hi >= 32768 THEN (hi - 65536) * 65536 + lo
        ELSE hi * 65536 + lo

\* an i64 as its upper and lower 32 bits, each written as an i32: the value
\* is hi * 2^32 + lo, with lo + 2^32 in place of a negative lo
I64(hi, lo) == [hi |-> hi, lo |-> lo]

\* `power as i32` keeps the lower 32 bits
AsI32(n) == n.lo

\* the i64 is the value of an i32
FitsI32(n) == IF n.lo >= 0 THEN n.hi = 0 ELSE n.hi = -1

\* what a build makes of an elementwise operation: the vector when nothing
\* overflowed; an abort or the wrapped vector, by build, when an exponent did
Outcomes(overflowed, powers) ==
    IF overflowed THEN {Panic, Ok(Dimension_new(powers))}
    ELSE {Ok(Dimension_new(powers))}

Dimension_mul_outcomes(self, rhs) ==
    Outcomes(\E i \in Axes : AddOverflows(self[i], rhs[i]),
             [i \in Axes |-> WrappingAdd(self[i], rhs[i])])

Dimension_div_outcomes(self, rhs) ==
    Outcomes(\E i \in Axes : SubOverflows(self[i], rhs[i]),
             [i \in Axes |-> WrappingSub(self[i], rhs[i])])

Dimension_pow_outcomes(self, power) ==
    Outcomes(\E i \in Axes : MulOverflows(self[i], AsI32(power)),
             [i \in Axes |-> WrappingMul(self[i], AsI32(power))])

(***************************************************************************)
(* The Dimension machine at full width: the caller holds Dimensions with   *)
(* exponents anywhere in i32 and hands any i64 to pow.                     *)
(***************************************************************************)
\* largest number of operations applied in a row
MaxWidthOps == 2

\* a Dimension with the given mass and length exponents
MassLength(m, l) ==
    Dimension_new([i \in Axes |-> IF i = Mass THEN m
                                  ELSE IF i = Length THEN l ELSE 0])

WidthOperands ==
    {COUNT, LENGTH, MassLength(-1, 2), MassLength(I32_MAX, 0),
     MassLength(I32_MIN, 1), MassLength(1073741824, -1)}

WidthPowers ==
    {I64(0, 2), I64(-1, -1), I64(0, 0), I64(1, 0), I64(1, 1),
     I64(0, I32_MIN), I64(-1, I32_MIN)}

WidthInit ==
    /\ dim \in WidthOperands
    /\ dlog = [op |-> "new", out |-> Ok(dim), depth |-> 0]

\* the log of a call at full width; an aborted program takes no further step
WidthStep(op, arg, out) ==
    /\ dlog.out.status = "ok"
    /\ dlog.depth < MaxWidthOps
    /\ dlog' = [op |-> op, self |-> dim, arg |-> arg, out |-> out,
                depth |-> dlog.depth + 1]
    /\ dim' = IF out.status = "ok" THEN out.value ELSE dim

WidthMulOp ==
    \E rhs \in WidthOperands :
        \E out \in Dimension_mul_outcomes(dim, rhs) :
            WidthStep("mul", rhs, out)

WidthDivOp ==
    \E rhs \in WidthOperands :
        \E out \in Dimension_div_outcomes(dim, rhs) :
            WidthStep("div", rhs, out)

WidthPowOp ==
    \E power \in WidthPowers :
        \E out \in Dimension_pow_outcomes(dim, power) :
            WidthStep("pow", power, out)

(***************************************************************************)
(* Display of a Dimension.                                                 *)
(***************************************************************************)
\* Display of Fundamentals
Fundamentals_fmt(fundamental) ==
    CASE fundamental = Length -> "length"
      [] fundamental = Mass -> "mass"
      [] fundamental = Time -> "time"
      [] fundamental = Current -> "current"
      [] fundamental = Temperature -> "temperature"
      [] fundamental = AmountOfSubstance -> "amount of substance"
      [] fundamental = LuminousIntensity -> "luminous intensity"
      [] fundamental = Angle -> "angle"
      [] fundamental = Bit -> "bit"
      [] fundamental = Count -> "count"

DigitText(d) == <<"0", "1", "2", "3", "4", "5", "6", "7", "8", "9">>[d + 1]

\* the decimal text of a natural number
RECURSIVE DecimalText(_)
DecimalText(n) ==
    IF n < 10 THEN DigitText(n)
    ELSE DecimalText(n \div 10) \o DigitText(n % 10)

\* `{}` of an i32: a minus sign before the digits of a negative number
i32_fmt(n) ==
    IF n >= 0 THEN DecimalText(n)
    ELSE LET rest == -((n \div 10) + (IF n % 10 = 0 THEN 0 ELSE 1))
             last == (10 - (n % 10)) % 10
         IN  "-" \o (IF rest = 0 THEN "" ELSE DecimalText(rest))
                 \o DigitText(last)

\* a faulty variant of DisplayedPiece that writes the exponent 1 out
DisplayedPiece_AlwaysPower(i, power) ==
    <<"[" \o Fundamentals_fmt(i) \o "]^" \o i32_fmt(power)>>

\* what the closure of Display pushes for the axis i: nothing, the name, or
\* the name with its exponent
DisplayedPiece(i, power) ==
    IF power = 1 THEN <<Fundamentals_fmt(i)>>
    ELSE IF power # 0
    THEN <<"[" \o Fundamentals_fmt(i) \o "]^" \o i32_fmt(power)>>
    ELSE <<>>

\* the vector `displayed` after the axes from i on have been visited
RECURSIVE DisplayedFrom(_, _, _)
DisplayedFrom(self, i, displayed) ==
    IF i > FUNDAMENTALS_NUMBER THEN displayed
    ELSE DisplayedFrom(self, i + 1, displayed \o DisplayedPiece(i, self[i]))

\* [String]::join
RECURSIVE Join(_, _)
Join(pieces, separator) ==
    IF pieces = <<>> THEN ""
    ELSE IF Len(pieces) = 1 THEN pieces[1]
    ELSE pieces[1] \o separator \o Join(Tail(pieces), separator)

Dimension_fmt(self) == Join(DisplayedFrom(self, 1, <<>>), " * ")

\* to_string of the Dimension held
DimDisplayOp ==
    /\ dlog.op # "display"
    /\ dlog' = [op |-> "display", before |-> dim,
                displayed |-> DisplayedFrom(dim, 1, <<>>),
                after |-> Dimension_fmt(dim), mul |-> NoMul]
    /\ UNCHANGED dim

(***************************************************************************)
(* transformations.rs: the three transformations.                          *)
(***************************************************************************)
IdentityTransformation == [kind |-> "Identity"]

LinearTransformation(scale, offset) ==
    [kind |-> "Linear", scale |-> scale, offset |-> offset]

DecibelTransformation(p0) == [kind |-> "Decibel", p0 |-> p0]

Linear_to_base(t, value) == F64Add(F64Mul(value, t.scale), t.offset)

\* a faulty variant of Linear_from_base that forgets the offset
Linear_from_base_NoOffset(t, value) == F64Div(value, t.scale)

Linear_from_base(t, value) == F64Div(F64Sub(value, t.offset), t.scale)

Identity_to_base(t, value) == value

Identity_from_base(t, value) == value

\* largest decade the decibel transformation is applied to
MaxDecade == 2

Decades == (-MaxDecade)..MaxDecade

\* MathOpsF64::exp with base 10 on an integral argument
Exp10(x) == F64Pow(Num(10), IntOf(x))

\* f64::log is ln(x) / ln(base): for base 10 the quotient is the decade
\* itself for 1, 10 and 100, and falls short of it in the last place for 1000
\* and for the negative decades, which the model leaves out
LogDecades == Decades \cap (0..2)

IsPow10(x) == \E k \in LogDecades : F64Pow(Num(10), k) = x

\* MathOpsF64::log with base 10 on a power of ten
Log10(x) == Num(CHOOSE k \in LogDecades : F64Pow(Num(10), k) = x)

\* the value is raised as it stands, without the division by ten
Decibel_to_base_NoDivide(t, value) == F64Mul(Exp10(value), t.p0)

Decibel_to_base(t, value) == F64Mul(Exp10(F64Div(value, Num(10))), t.p0)

Decibel_from_base(t, value) == F64Mul(Log10(F64Div(value, t.p0)), Num(10))

\* the enum UnitTransformation delegates to the variant it holds
UnitTransformation_to_base(t, value) ==
    CASE t.kind = "Identity" -> Identity_to_base(t, value)
      [] t.kind = "Linear" -> Linear_to_base(t, value)
      [] t.kind = "Decibel" -> Decibel_to_base(t, value)

UnitTransformation_from_base(t, value) ==
    CASE t.kind = "Identity" -> Identity_from_base(t, value)
      [] t.kind = "Linear" -> Linear_from_base(t, value)
      [] t.kind = "Decibel" -> Decibel_from_base(t, value)

\* the f64 arithmetic of to_base(value) rounds nothing the model leaves out
ToBaseFits(t, value) ==
    CASE t.kind = "Identity" -> TRUE
      [] t.kind = "Linear" ->
            /\ MulExact(value, t.scale)
            /\ AddExact(F64Mul(value, t.scale), t.offset)
      [] t.kind = "Decibel" ->
            /\ \E k \in Decades : value = Num(10 * k)
            /\ MulExact(Exp10(F64Div(value, Num(10))), t.p0)

\* the f64 arithmetic of from_base(value) rounds nothing the model leaves out
FromBaseFits(t, value) ==
    CASE t.kind = "Identity" -> TRUE
      [] t.kind = "Linear" ->
            /\ SubExact(value, t.offset)
            /\ DivExact(F64Sub(value, t.offset), t.scale)
      [] t.kind = "Decibel" ->
            /\ DivExact(value, t.p0)
            /\ IsPow10(F64Div(value, t.p0))

(***************************************************************************)
(* units.rs: Unit and its composition.                                     *)
(***************************************************************************)
Unit_new(name, dimension, transformation) ==
    [name |-> name, dimensionality |-> dimension,
     transformation |-> transformation]

Unit_new_base(name, dimension) ==
    Unit_new(name, dimension, IdentityTransformation)

Unit_new_linear(name, dimension, scale, offset) ==
    Unit_new(name, dimension, LinearTransformation(scale, offset))

Unit_to_base(self, value) ==
    UnitTransformation_to_base(self.transformation, value)

Unit_from_base(self, value) ==
    UnitTransformation_from_base(self.transformation, value)

\* Linear with a non-zero offset
Biased(t) == t.kind = "Linear" /\ t.offset # Num(0)

\* a faulty variant of CompositionPanics that forgets the right operand's offset
CompositionPanics_LeftOnly(t1, t2) ==
    \/ Biased(t1)
    \/ t1.kind = "Decibel" \/ t2.kind = "Decibel"

\* the guard at the head of Unit mul and Unit div
CompositionPanics(t1, t2) ==
    \/ Biased(t1)
    \/ Biased(t2)
    \/ t1.kind = "Decibel" \/ t2.kind = "Decibel"

\* the scale read off an Identity or Linear transformation
ScaleOf(t) == IF t.kind = "Identity" THEN Num(1) ELSE t.scale

\* a faulty variant of Unit_div that multiplies the scales as Unit mul does
Unit_div_MulScale(self, rhs) ==
    IF CompositionPanics(self.transformation, rhs.transformation) THEN Panic
    ELSE Ok(Unit_new(
            "(" \o self.name \o " * " \o rhs.name \o ")",
            Dimension_mul(self.dimensionality, rhs.dimensionality),
            LinearTransformation(
                F64Mul(ScaleOf(self.transformation), ScaleOf(rhs.transformation)),
                Num(0))))

Unit_mul(self, rhs) ==
    IF CompositionPanics(self.transformation, rhs.transformation) THEN Panic
    ELSE Ok(Unit_new(
            "(" \o self.name \o " * " \o rhs.name \o ")",
            Dimension_mul(self.dimensionality, rhs.dimensionality),
            LinearTransformation(
                F64Mul(ScaleOf(self.transformation), ScaleOf(rhs.transformation)),
                Num(0))))

\* the quotient's dimension is computed with `*`, as the source does
Unit_div(self, rhs) ==
    IF CompositionPanics(self.transformation, rhs.transformation) THEN Panic
    ELSE Ok(Unit_new(
            "(" \o self.name \o " * " \o rhs.name \o ")",
            Dimension_mul(self.dimensionality, rhs.dimensionality),
            LinearTransformation(
                F64Div(ScaleOf(self.transformation), ScaleOf(rhs.transformation)),
                Num(0))))

\* a faulty variant of Unit_pow that leaves the scale of a Linear unit as it is
Unit_pow_KeepScale(self, power) ==
    IF self.transformation.kind = "Decibel" \/ Biased(self.transformation)
    THEN Panic
    ELSE Ok(Unit_new(
            self.name \o "^" \o ToString(power),
            Dimension_pow(self.dimensionality, power),
            self.transformation))

\* Unit::pow: dimension.power(n); fatal for Decibel and biased Linear; a
\* Linear scale becomes scale^n, an Identity unit stays Identity
Unit_pow(self, power) ==
    IF self.transformation.kind = "Decibel" \/ Biased(self.transformation)
    THEN Panic
    ELSE Ok(Unit_new(
            self.name \o "^" \o ToString(power),
            Dimension_pow(self.dimensionality, power),
            IF self.transformation.kind = "Linear"
            THEN LinearTransformation(F64Pow(self.transformation.scale, power),
                                      Num(0))
            ELSE IdentityTransformation))

\* Identity or zero-offset Linear
ScaleOnly(u) ==
    IF u.transformation.kind = "Linear"
    THEN u.transformation.offset = Num(0)
    ELSE u.transformation.kind = "Identity"

\* the product of the scales of two units is computed without rounding:
\* nothing to compute when the call panics
ComposeFits(self, rhs) ==
    IF ScaleOnly(self) /\ ScaleOnly(rhs)
    THEN MulExact(ScaleOf(self.transformation), ScaleOf(rhs.transformation))
    ELSE TRUE

\* the quotient of the scales of two units is computed without rounding
QuotientFits(self, rhs) ==
    IF ScaleOnly(self) /\ ScaleOnly(rhs)
    THEN DivExact(ScaleOf(self.transformation), ScaleOf(rhs.transformation))
    ELSE TRUE

UnitPowFits(self, power) ==
    IF ScaleOnly(self)
    THEN PowExact(ScaleOf(self.transformation), power)
    ELSE TRUE

(***************************************************************************)
(* The units the machines draw from.                                       *)
(***************************************************************************)
meter == Unit_new_base("meter", LENGTH)

kilometer == Unit_new_linear("kilometer", LENGTH, Num(1000), Num(0))

second == Unit_new_base("second", TIME)

minute == Unit_new_linear("minute", TIME, Num(60), Num(0))

kelvin == Unit_new_base("kelvin", TEMPERATURE)

celsius == Unit_new_linear("celsius", TEMPERATURE, Num(1), Dec(27315, 1, -2))

\* a biased unit whose offset an f64 holds exactly
centigrade == Unit_new_linear("centigrade", TEMPERATURE, Num(1), Num(273))

decibel == Unit_new("decibel", COUNT, DecibelTransformation(Num(1)))

Units ==
    {meter, kilometer, second, minute, kelvin, celsius, centigrade, decibel}

(***************************************************************************)
(* The Unit machine: a caller holds a Unit and composes it.                *)
(***************************************************************************)
\* number of compositions applied to a constructed Unit or Quantity
MaxCompose == 2

UnitPowers == {-1, 0, 1, 2}

UnitInit ==
    /\ unit \in Units
    /\ ulog = [op |-> "new", self |-> unit, out |-> Ok(unit), depth |-> 0]

\* the held value after a call: the result, or the old value after a panic
Held(old, out) == IF out.status = "ok" THEN out.value ELSE old

UnitNewOp ==
    \E u \in Units :
        /\ unit' = u
        /\ ulog' = [op |-> "new", self |-> u, out |-> Ok(u), depth |-> 0]

UnitMulOp ==
    \E rhs \in Units :
        /\ ulog.depth < MaxCompose
        /\ ComposeFits(unit, rhs)
        /\ LET out == Unit_mul(unit, rhs) IN
            /\ out.status = "ok" =>
                    WithinExp(out.value.dimensionality, MaxUnitExp)
            /\ unit' = Held(unit, out)
            /\ ulog' = [op |-> "mul", self |-> unit, rhs |-> rhs,
                        out |-> out, depth |-> ulog.depth + 1]

UnitDivOp ==
    \E rhs \in Units :
        /\ ulog.depth < MaxCompose
        /\ QuotientFits(unit, rhs)
        /\ LET out == Unit_div(unit, rhs) IN
            /\ out.status = "ok" =>
                    WithinExp(out.value.dimensionality, MaxUnitExp)
            /\ unit' = Held(unit, out)
            /\ ulog' = [op |-> "div", self |-> unit, rhs |-> rhs,
                        out |-> out, depth |-> ulog.depth + 1]

UnitPowOp ==
    \E power \in UnitPowers :
        /\ ulog.depth < MaxCompose
        /\ UnitPowFits(unit, power)
        /\ LET out == Unit_pow(unit, power) IN
            /\ out.status = "ok" =>
                    WithinExp(out.value.dimensionality, MaxUnitExp)
            /\ unit' = Held(unit, out)
            /\ ulog' = [op |-> "pow", self |-> unit, power |-> power,
                        out |-> out, depth |-> ulog.depth + 1]

(***************************************************************************)
(* quantities.rs: Quantity, its conversion and its arithmetic.             *)
(***************************************************************************)
\* a faulty variant of Quantity_new that stores the magnitude as given
Quantity_new_Raw(magnitude, u) == [magnitude |-> magnitude, unit |-> u]

Quantity_new(magnitude, u) ==
    [magnitude |-> Unit_to_base(u, magnitude), unit |-> u]

UnitsConversionError(expected, got) ==
    [kind |-> "UnitsConversionError", expected |-> expected, got |-> got]

\* a faulty variant of magnitude_as that reports the two dimensions swapped
magnitude_as_Swapped(self, u) ==
    IF self.unit.dimensionality # u.dimensionality
    THEN Err(UnitsConversionError(u.dimensionality, self.unit.dimensionality))
    ELSE Ok(Unit_from_base(u, self.magnitude))

magnitude_as(self, u) ==
    IF self.unit.dimensionality # u.dimensionality
    THEN Err(UnitsConversionError(self.unit.dimensionality, u.dimensionality))
    ELSE Ok(Unit_from_base(u, self.magnitude))

\* the new Quantity goes through Quantity::new, which applies to_base of the
\* powered unit to the powered magnitude
Quantity_pow(self, power) ==
    IF self.unit.transformation.kind = "Decibel" THEN Panic
    ELSE IF Biased(self.unit.transformation) THEN Panic
    ELSE Ok(Quantity_new(F64Pow(self.magnitude, power),
                         Unit_pow(self.unit, power).value))

\* a faulty variant of Quantity_add that keeps the right operand's unit
Quantity_add_RightUnit(self, other) ==
    IF self.unit.dimensionality # other.unit.dimensionality THEN Panic
    ELSE Ok([magnitude |-> F64Add(self.magnitude, other.magnitude),
             unit |-> other.unit])

Quantity_add(self, other) ==
    IF self.unit.dimensionality # other.unit.dimensionality THEN Panic
    ELSE Ok([magnitude |-> F64Add(self.magnitude, other.magnitude),
             unit |-> self.unit])

Quantity_sub(self, other) ==
    IF self.unit.dimensionality # other.unit.dimensionality THEN Panic
    ELSE Ok([magnitude |-> F64Sub(self.magnitude, other.magnitude),
             unit |-> self.unit])

\* a faulty variant of Quantity_mul that builds the product through Quantity::new
Quantity_mul_ViaNew(self, other) ==
    LET new_unit == Unit_mul(self.unit, other.unit) IN
    IF new_unit.status = "panic" THEN Panic
    ELSE Ok(Quantity_new(F64Mul(self.magnitude, other.magnitude),
                         new_unit.value))

Quantity_mul(self, other) ==
    LET new_unit == Unit_mul(self.unit, other.unit) IN
    IF new_unit.status = "panic" THEN Panic
    ELSE Ok([magnitude |-> F64Mul(self.magnitude, other.magnitude),
             unit |-> new_unit.value])

Quantity_div(self, other) ==
    LET new_unit == Unit_div(self.unit, other.unit) IN
    IF new_unit.status = "panic" THEN Panic
    ELSE Ok([magnitude |-> F64Div(self.magnitude, other.magnitude),
             unit |-> new_unit.value])

\* a faulty variant of Quantity_div_scalar that multiplies by the scalar
Quantity_div_scalar_Multiplies(self, scalar) ==
    [magnitude |-> F64Mul(self.magnitude, scalar), unit |-> self.unit]

\* impl Mul<f64> for Quantity
Quantity_mul_scalar(self, scalar) ==
    [magnitude |-> F64Mul(self.magnitude, scalar), unit |-> self.unit]

\* impl Div<f64> for Quantity
Quantity_div_scalar(self, scalar) ==
    [magnitude |-> F64Div(self.magnitude, scalar), unit |-> self.unit]

(***************************************************************************)
(* The Quantity machine: a caller constructs a Quantity, converts it and   *)
(* combines it with freshly constructed operands.                          *)
(***************************************************************************)
\* number of arithmetic operations applied to a constructed Quantity
MaxQtyOps == 1

\* magnitudes handed to Quantity::new
Magnitudes == {Num(0), Num(5), Num(5000), Num(10), Num(-10), Rat(1, 2)}

\* magnitudes of the right operands
OperandMagnitudes == {Num(2), Num(10)}

QtyPowers == {-1, 0, 1, 2}

\* the inputs of the construction the held Quantity derives from
Made(m, u) == [m |-> m, u |-> u]

QtyInit ==
    \E m \in Magnitudes, u \in Units :
        /\ ToBaseFits(u.transformation, m)
        /\ qx = Quantity_new(m, u)
        /\ qlog = [op |-> "new", made |-> Made(m, u), out |-> Ok(qx),
                   depth |-> 0]

QtyNewOp ==
    \E m \in Magnitudes, u \in Units :
        /\ ToBaseFits(u.transformation, m)
        /\ qx' = Quantity_new(m, u)
        /\ qlog' = [op |-> "new", made |-> Made(m, u), out |-> Ok(qx'),
                    depth |-> 0]

\* units a Quantity is converted to: the catalogue and two units of a
\* derived dimension
meter_per_second ==
    Unit_new_base("meter_per_second", Dimension_div(LENGTH, TIME))

joule ==
    Unit_new_base("joule",
        Dimension_div(Dimension_mul(MASS, Dimension_pow(LENGTH, 2)),
                      Dimension_pow(TIME, 2)))

ConversionTargets == Units \cup {meter_per_second, joule}

\* the binary operation the held Quantity is the result of, with the units
\* of its operands
Via ==
    IF qlog.op = "magnitude_as" THEN qlog.via
    ELSE IF qlog.op \in {"add", "sub", "mul", "div"} /\ qlog.out.status = "ok"
    THEN [op |-> qlog.op, left |-> qlog.self.unit, right |-> qlog.other.unit]
    ELSE [op |-> "none"]

QtyMagnitudeAsOp ==
    \E target \in ConversionTargets :
        /\ qx.unit.dimensionality = target.dimensionality =>
                FromBaseFits(target.transformation, qx.magnitude)
        /\ qx' = qx
        /\ qlog' = [op |-> "magnitude_as", made |-> qlog.made, self |-> qx,
                    target |-> target, out |-> magnitude_as(qx, target),
                    via |-> Via, depth |-> qlog.depth]

QtyPowOp ==
    \E power \in QtyPowers :
        /\ qlog.depth < MaxQtyOps
        /\ PowExact(qx.magnitude, power)
        /\ UnitPowFits(qx.unit, power)
        /\ ScaleOnly(qx.unit) =>
            /\ ToBaseFits(Unit_pow(qx.unit, power).value.transformation,
                          F64Pow(qx.magnitude, power))
            /\ WithinExp(Dimension_pow(qx.unit.dimensionality, power),
                         MaxUnitExp)
        /\ LET out == Quantity_pow(qx, power) IN
            /\ qx' = Held(qx, out)
            /\ qlog' = [op |-> "pow", made |-> qlog.made, self |-> qx,
                        power |-> power, out |-> out,
                        depth |-> qlog.depth + 1]

\* a freshly constructed right operand; the log of mul and div also keeps
\* the outcome of the Unit composition the call makes (unitOut)
Operand(m, u) == Quantity_new(m, u)

QtyAddOp ==
    \E m \in OperandMagnitudes, u \in Units :
        /\ qlog.depth < MaxQtyOps
        /\ ToBaseFits(u.transformation, m)
        /\ AddExact(qx.magnitude, Operand(m, u).magnitude)
        /\ LET out == Quantity_add(qx, Operand(m, u)) IN
            /\ qx' = Held(qx, out)
            /\ qlog' = [op |-> "add", made |-> qlog.made, self |-> qx,
                        other |-> Operand(m, u), out |-> out,
                        depth |-> qlog.depth + 1]

QtySubOp ==
    \E m \in OperandMagnitudes, u \in Units :
        /\ qlog.depth < MaxQtyOps
        /\ ToBaseFits(u.transformation, m)
        /\ SubExact(qx.magnitude, Operand(m, u).magnitude)
        /\ LET out == Quantity_sub(qx, Operand(m, u)) IN
            /\ qx' = Held(qx, out)
            /\ qlog' = [op |-> "sub", made |-> qlog.made, self |-> qx,
                        other |-> Operand(m, u), out |-> out,
                        depth |-> qlog.depth + 1]

QtyMulOp ==
    \E m \in OperandMagnitudes, u \in Units :
        /\ qlog.depth < MaxQtyOps
        /\ ToBaseFits(u.transformation, m)
        /\ MulExact(qx.magnitude, Operand(m, u).magnitude)
        /\ ComposeFits(qx.unit, u)
        /\ (ScaleOnly(qx.unit) /\ ScaleOnly(u)) =>
            /\ WithinExp(Dimension_mul(qx.unit.dimensionality,
                                       u.dimensionality), MaxUnitExp)
        /\ LET out == Quantity_mul(qx, Operand(m, u)) IN
            /\ qx' = Held(qx, out)
            /\ qlog' = [op |-> "mul", made |-> qlog.made, self |-> qx,
                        other |-> Operand(m, u), out |-> out,
                        unitOut |-> Unit_mul(qx.unit, u),
                        depth |-> qlog.depth + 1]

QtyDivOp ==
    \E m \in OperandMagnitudes, u \in Units :
        /\ qlog.depth < MaxQtyOps
        /\ ToBaseFits(u.transformation, m)
        /\ DivExact(qx.magnitude, Operand(m, u).magnitude)
        /\ QuotientFits(qx.unit, u)
        /\ (ScaleOnly(qx.unit) /\ ScaleOnly(u)) =>
            /\ WithinExp(Dimension_div(qx.unit.dimensionality,
                                       u.dimensionality), MaxUnitExp)
            /\ WithinExp(Dimension_mul(qx.unit.dimensionality,
                                       u.dimensionality), MaxUnitExp)
        /\ LET out == Quantity_div(qx, Operand(m, u)) IN
            /\ qx' = Held(qx, out)
            /\ qlog' = [op |-> "div", made |-> qlog.made, self |-> qx,
                        other |-> Operand(m, u), out |-> out,
                        unitOut |-> Unit_div(qx.unit, u),
                        depth |-> qlog.depth + 1]

\* the plain numbers a Quantity is multiplied and divided by
Scalars == {Num(2), Rat(-1, 2)}

QtyScalarMulOp ==
    \E scalar \in Scalars :
        /\ qlog.depth < MaxQtyOps
        /\ MulExact(qx.magnitude, scalar)
        /\ qx' = Quantity_mul_scalar(qx, scalar)
        /\ qlog' = [op |-> "mul_scalar", made |-> qlog.made, self |-> qx,
                    scalar |-> scalar, out |-> Ok(qx'),
                    depth |-> qlog.depth + 1]

QtyScalarDivOp ==
    \E scalar \in Scalars :
        /\ qlog.depth < MaxQtyOps
        /\ DivExact(qx.magnitude, scalar)
        /\ qx' = Quantity_div_scalar(qx, scalar)
        /\ qlog' = [op |-> "div_scalar", made |-> qlog.made, self |-> qx,
                    scalar |-> scalar, out |-> Ok(qx'),
                    depth |-> qlog.depth + 1]

(***************************************************************************)
(* registry.rs: UnitRegistry, a HashMap from unit names to units.          *)
(***************************************************************************)
None == NoValue

Some(v) == [some |-> v]

\* HashMap::new
HashMap_new == <<>>

\* HashMap::insert: the value stored under an existing key is replaced
HashMap_insert(map, key, value) ==
    [k \in DOMAIN map \cup {key} |-> IF k = key THEN value ELSE map[k]]

UnitRegistry_new == HashMap_new

\* the keys, in the arbitrary order of the map's iteration: a set
UnitRegistry_unit_names(self) == DOMAIN self

\* a faulty variant of UnitRegistry_contains that finds no name at all
UnitRegistry_contains_Never(self, name) == FALSE

UnitRegistry_contains(self, name) == name \in DOMAIN self

UnitRegistry_get(self, name) ==
    IF name \in DOMAIN self THEN Some(self[name]) ELSE None

RegistryAlreadyContainsUnit(name) ==
    [kind |-> "RegistryAlreadyContainsUnit", name |-> name]

\* a faulty variant of UnitRegistry_register that reports the duplicate but
\* stores the new unit in place of the registered one
UnitRegistry_register_Replaces(self, u) ==
    IF UnitRegistry_contains(self, u.name)
    THEN [registry |-> HashMap_insert(self, u.name, u),
          out |-> Err(RegistryAlreadyContainsUnit(u.name))]
    ELSE [registry |-> HashMap_insert(self, u.name, u), out |-> Ok(NoValue)]

\* register: the registry after the call and the Result it returns
UnitRegistry_register(self, u) ==
    IF UnitRegistry_contains(self, u.name)
    THEN [registry |-> self,
          out |-> Err(RegistryAlreadyContainsUnit(u.name))]
    ELSE [registry |-> HashMap_insert(self, u.name, u), out |-> Ok(NoValue)]

(***************************************************************************)
(* The Registry machine: a caller owns a UnitRegistry and calls register,  *)
(* get, contains and unit_names on it in any order.                        *)
(***************************************************************************)
\* a second unit that goes by the name of meter
nautical_mile_as_meter ==
    Unit_new_linear("meter", LENGTH, Num(1852), Num(0))

RegUnits == Units \cup {nautical_mile_as_meter}

RegNames == {u.name : u \in RegUnits} \cup {"parsec"}

RegInit ==
    /\ registry = UnitRegistry_new
    /\ rlog = [op |-> "new"]

RegRegisterOp ==
    \E u \in RegUnits :
        LET r == UnitRegistry_register(registry, u)
        IN  /\ registry' = r.registry
            /\ rlog' = [op |-> "register", unit |-> u, before |-> registry,
                        out |-> r.out]

RegGetOp ==
    \E name \in RegNames :
        /\ rlog' = [op |-> "get", name |-> name,
                    out |-> UnitRegistry_get(registry, name)]
        /\ UNCHANGED registry

RegContainsOp ==
    \E name \in RegNames :
        /\ rlog' = [op |-> "contains", name |-> name,
                    out |-> UnitRegistry_contains(registry, name)]
        /\ UNCHANGED registry

RegUnitNamesOp ==
    /\ rlog' = [op |-> "unit_names", out |-> UnitRegistry_unit_names(registry)]
    /\ UNCHANGED registry

RegistryDoesNotContainUnit(name) ==
    [kind |-> "RegistryDoesNotContainUnit", name |-> name]

\* a faulty variant of Quantity_new_from_registry that stores the magnitude
\* as given
Quantity_new_from_registry_Raw(reg, magnitude, unit_name) ==
    LET found == UnitRegistry_get(reg, unit_name)
    IN  IF found = None THEN Err(RegistryDoesNotContainUnit(unit_name))
        ELSE Ok([magnitude |-> magnitude, unit |-> found.some])

Quantity_new_from_registry(reg, magnitude, unit_name) ==
    LET found == UnitRegistry_get(reg, unit_name)
    IN  IF found = None THEN Err(RegistryDoesNotContainUnit(unit_name))
        ELSE Ok([magnitude |-> Unit_to_base(found.some, magnitude),
                 unit |-> found.some])

\* magnitudes handed to new_from_registry
RegMagnitudes == {Num(5), Num(10)}

RegNewFromRegistryOp ==
    \E m \in RegMagnitudes, name \in RegNames :
        /\ name \in DOMAIN registry =>
                ToBaseFits(registry[name].transformation, m)
        /\ rlog' = [op |-> "new_from_registry", magnitude |-> m,
                    name |-> name, before |-> registry,
                    out |-> Quantity_new_from_registry(registry, m, name)]
        /\ UNCHANGED registry

(***************************************************************************)
(* parser.rs: the catalogue parser.  A document is the sequence of         *)
(* unit_definition pairs the grammar yields for a syntactically valid      *)
(* text; numbers and exponents are the values their tokens parse to.       *)
(***************************************************************************)
PestParseError(message) == [kind |-> "PestParseError", message |-> message]

Option_unwrap_or(o, default) == IF o = None THEN default ELSE o.some

\* the 24 rows (long name, symbol, factor) of the prefix table
SI_PREFIXES == <<
    [prefix |-> "Quetta", symbol |-> "Q", factor |-> Dec(1, 1, 30)],
    [prefix |-> "Ronna", symbol |-> "R", factor |-> Dec(1, 1, 27)],
    [prefix |-> "Yotta", symbol |-> "Y", factor |-> Dec(1, 1, 24)],
    [prefix |-> "Zetta", symbol |-> "Z", factor |-> Dec(1, 1, 21)],
    [prefix |-> "Exa", symbol |-> "E", factor |-> Dec(1, 1, 18)],
    [prefix |-> "Peta", symbol |-> "P", factor |-> Dec(1, 1, 15)],
    [prefix |-> "Tera", symbol |-> "T", factor |-> Dec(1, 1, 12)],
    [prefix |-> "Giga", symbol |-> "G", factor |-> Dec(1, 1, 9)],
    [prefix |-> "Mega", symbol |-> "M", factor |-> Dec(1, 1, 6)],
    [prefix |-> "kilo", symbol |-> "k", factor |-> Dec(1, 1, 3)],
    [prefix |-> "hecto", symbol |-> "h", factor |-> Dec(1, 1, 2)],
    [prefix |-> "deca", symbol |-> "da", factor |-> Dec(1, 1, 1)],
    [prefix |-> "deci", symbol |-> "d", factor |-> Dec(1, 1, -1)],
    [prefix |-> "centi", symbol |-> "c", factor |-> Dec(1, 1, -2)],
    [prefix |-> "milli", symbol |-> "m", factor |-> Dec(1, 1, -3)],
    [prefix |-> "micro", symbol |-> "µ", factor |-> Dec(1, 1, -6)],
    [prefix |-> "nano", symbol |-> "n", factor |-> Dec(1, 1, -9)],
    [prefix |-> "pico", symbol |-> "p", factor |-> Dec(1, 1, -12)],
    [prefix |-> "femto", symbol |-> "f", factor |-> Dec(1, 1, -15)],
    [prefix |-> "atto", symbol |-> "a", factor |-> Dec(1, 1, -18)],
    [prefix |-> "zepto", symbol |-> "z", factor |-> Dec(1, 1, -21)],
    [prefix |-> "yocto", symbol |-> "y", factor |-> Dec(1, 1, -24)],
    [prefix |-> "ronto", symbol |-> "r", factor |-> Dec(1, 1, -27)],
    [prefix |-> "quecto", symbol |-> "q", factor |-> Dec(1, 1, -30)]>>

\* one pair of a dimension expression: a term with an optional exponent
DimensionTermPair(fundamental, exponent) ==
    [rule |-> "dimension_term", fundamental |-> fundamental,
     exponent |-> exponent]

\* one pair of a dimension expression: an operator
OperatorPair(text) == [rule |-> "operator", text |-> text]

parse_dimension_term(pair) ==
    [fundamental |-> pair.fundamental,
     exponent |-> IF pair.exponent = <<>> THEN 1 ELSE pair.exponent[1]]

\* the loop of parse_dimension_expression from pair i on
RECURSIVE ParseExpressionFrom(_, _, _, _)
ParseExpressionFrom(pairs, i, current_operator, terms) ==
    IF i > Len(pairs) THEN terms
    ELSE IF pairs[i].rule = "dimension_term"
    THEN LET term == parse_dimension_term(pairs[i])
             signed == IF current_operator = "/"
                       THEN [term EXCEPT !.exponent = -term.exponent]
                       ELSE term
         IN  ParseExpressionFrom(pairs, i + 1, current_operator,
                                 Append(terms, signed))
    ELSE ParseExpressionFrom(pairs, i + 1, pairs[i].text, terms)

\* a faulty variant of parse_dimension_expression that starts as if a `/`
\* stood before the first term
parse_dimension_expression_Divides(pairs) ==
    ParseExpressionFrom(pairs, 1, "/", <<>>)

parse_dimension_expression(pairs) == ParseExpressionFrom(pairs, 1, "*", <<>>)

\* the loop over the numbers of a linear transformation: a number is taken
\* for the scale as long as the scale read so far is 0.0
RECURSIVE LinearNumbersFrom(_, _, _, _)
LinearNumbersFrom(numbers, i, scale, offset) ==
    IF i > Len(numbers) THEN [variant |-> "Linear", scale |-> scale,
                              offset |-> offset]
    ELSE IF scale = Num(0)
    THEN LinearNumbersFrom(numbers, i + 1, numbers[i], offset)
    ELSE LinearNumbersFrom(numbers, i + 1, scale, Some(numbers[i]))

parse_transformation(pair) ==
    CASE pair.rule = "identity_transformation" -> [variant |-> "Identity"]
      [] pair.rule = "linear_transformation" ->
            LinearNumbersFrom(pair.numbers, 1, Num(0), None)
      [] pair.rule = "decibel_transformation" ->
            [variant |-> "Decibel",
             p0 |-> IF pair.numbers = <<>> THEN Num(0)
                    ELSE pair.numbers[Len(pair.numbers)]]

\* a definition without a transformation property is an Identity one
parse_transformation_property(pair) ==
    IF pair.rule = "absent" THEN [variant |-> "Identity"]
    ELSE parse_transformation(pair)

\* a faulty variant of parse_prefixes_property that takes every definition
\* to ask for standard prefixes
parse_prefixes_property_AlwaysStandard(text) == "Standard"

parse_prefixes_property(text) ==
    IF text = "standard" THEN "Standard" ELSE "No"

parse_unit_definition(pair) ==
    [name |-> pair.identifier,
     dimension |-> parse_dimension_expression(pair.dimension),
     transformation |-> parse_transformation_property(pair.transformation),
     prefixes |-> parse_prefixes_property(pair.prefixes)]

\* the Dimension constant a fundamental's name stands for
FundamentalDimension(name) ==
    CASE name = "length" -> LENGTH
      [] name = "mass" -> MASS
      [] name = "time" -> TIME
      [] name = "current" -> CURRENT
      [] name = "temperature" -> TEMPERATURE
      [] name = "amount of substance" -> AMOUNT_OF_SUBSTANCE
      [] name = "luminous intensity" -> LUMINOUS_INTENSITY
      [] name = "angle" -> ANGLE
      [] name = "bit" -> BIT
      [] name = "count" -> COUNT

\* the loop that folds the terms of a definition into its dimension
RECURSIVE ReduceTermsFrom(_, _, _)
ReduceTermsFrom(terms, i, dimension) ==
    IF i > Len(terms) THEN dimension
    ELSE ReduceTermsFrom(terms, i + 1,
            Dimension_mul(dimension,
                Dimension_pow(FundamentalDimension(terms[i].fundamental),
                              terms[i].exponent)))

\* the unit registered under the definition's own name
BaseUnit(one, dimension) ==
    CASE one.transformation.variant = "Identity" ->
            Unit_new_base(one.name, dimension)
      [] one.transformation.variant = "Linear" ->
            Unit_new_linear(one.name, dimension, one.transformation.scale,
                Option_unwrap_or(one.transformation.offset, Num(0)))
      [] one.transformation.variant = "Decibel" ->
            Unit_new(one.name, dimension,
                     DecibelTransformation(one.transformation.p0))

\* a faulty variant of PrefixedUnit that scales every derivative by the
\* prefix factor alone
PrefixedUnit_FactorOnly(one, dimension, row) ==
    Unit_new_linear(row.prefix \o one.name, dimension, row.factor, Num(0))

\* the unit registered for one row of the prefix table
PrefixedUnit(one, dimension, row) ==
    IF one.transformation.variant = "Linear"
    THEN Unit_new_linear(row.prefix \o one.name, dimension,
                         F64Mul(one.transformation.scale, row.factor), Num(0))
    ELSE Unit_new_linear(row.prefix \o one.name, dimension, row.factor,
                         Num(0))

Running == [status |-> "running", value |-> NoValue]

\* the loop over the prefix table from row i on: register(..).unwrap()
RECURSIVE RegisterPrefixedFrom(_, _, _, _)
RegisterPrefixedFrom(reg, one, dimension, i) ==
    IF i > Len(SI_PREFIXES) THEN [registry |-> reg, out |-> Running]
    ELSE LET r == UnitRegistry_register(reg,
                      PrefixedUnit(one, dimension, SI_PREFIXES[i]))
         IN  IF r.out.status = "err"
             THEN [registry |-> r.registry, out |-> Panic]
             ELSE RegisterPrefixedFrom(r.registry, one, dimension, i + 1)

\* one turn of the loop of parse_units_file over the definitions: the local
\* registry after it and Running, or the way the function is left
ProcessDefinition(reg, pair) ==
    LET one == parse_unit_definition(pair)
        dimension == ReduceTermsFrom(one.dimension, 1, COUNT)
        r == UnitRegistry_register(reg, BaseUnit(one, dimension))
    IN  IF r.out.status = "err" THEN [registry |-> r.registry, out |-> Panic]
        ELSE IF one.prefixes # "Standard"
        THEN [registry |-> r.registry, out |-> Running]
        ELSE IF one.transformation.variant = "Decibel"
        THEN [registry |-> r.registry,
              out |-> Err(PestParseError(
                "Decibel transformation is not compatible with standard prefixes"))]
        ELSE IF one.transformation.variant = "Linear"
                /\ Option_unwrap_or(one.transformation.offset, Num(0)) # Num(0)
        THEN [registry |-> r.registry,
              out |-> Err(PestParseError(
                "Linear transformation with offset is not compatible with standard prefixes"))]
        ELSE RegisterPrefixedFrom(r.registry, one, dimension, 1)

(***************************************************************************)
(* The Parser machine: parse_units_file works through a document, one      *)
(* definition per step, and returns.                                       *)
(***************************************************************************)
\* largest number of definitions in a document
MaxDefs == 2

NoTransformation == [rule |-> "absent"]

UnitDefinitionPair(identifier, dimension, transformation, prefixes) ==
    [identifier |-> identifier, dimension |-> dimension,
     transformation |-> transformation, prefixes |-> prefixes]

def_meter ==
    UnitDefinitionPair("meter", <<DimensionTermPair("length", <<>>)>>,
        [rule |-> "identity_transformation"], "standard")

def_kilometer ==
    UnitDefinitionPair("kilometer", <<DimensionTermPair("length", <<>>)>>,
        [rule |-> "linear_transformation", numbers |-> <<Num(1000)>>],
        "absent")

def_newton ==
    UnitDefinitionPair("newton",
        <<DimensionTermPair("mass", <<>>), OperatorPair("*"),
          DimensionTermPair("length", <<>>), OperatorPair("/"),
          DimensionTermPair("time", <<2>>)>>,
        [rule |-> "linear_transformation", numbers |-> <<Num(1), Num(0)>>],
        "standard")

def_byte ==
    UnitDefinitionPair("byte", <<DimensionTermPair("bit", <<>>)>>,
        [rule |-> "linear_transformation", numbers |-> <<Num(8)>>],
        "standard")

def_flux ==
    UnitDefinitionPair("flux",
        <<DimensionTermPair("length", <<>>), OperatorPair("/"),
          DimensionTermPair("time", <<>>), OperatorPair("*"),
          DimensionTermPair("mass", <<>>)>>,
        NoTransformation, "no")

def_celsius ==
    UnitDefinitionPair("degree_celsius",
        <<DimensionTermPair("temperature", <<>>)>>,
        [rule |-> "linear_transformation",
         numbers |-> <<Num(1), Dec(27315, 1, -2)>>],
        "no")

\* a biased Linear definition that asks for standard prefixes
def_centigrade ==
    UnitDefinitionPair("centigrade",
        <<DimensionTermPair("temperature", <<>>)>>,
        [rule |-> "linear_transformation", numbers |-> <<Num(1), Num(273)>>],
        "standard")

def_decibel ==
    UnitDefinitionPair("decibel", <<DimensionTermPair("count", <<>>)>>,
        [rule |-> "decibel_transformation", numbers |-> <<Num(1)>>], "no")

\* a Decibel definition that asks for standard prefixes
def_decibel_prefixed ==
    UnitDefinitionPair("decibel", <<DimensionTermPair("count", <<>>)>>,
        [rule |-> "decibel_transformation", numbers |-> <<Num(1)>>],
        "standard")

def_zero_point ==
    UnitDefinitionPair("zero_point",
        <<DimensionTermPair("temperature", <<>>)>>,
        [rule |-> "linear_transformation", numbers |-> <<Num(0), Num(32)>>],
        "standard")

DefinitionPairs ==
    {def_meter, def_kilometer, def_newton, def_byte, def_flux, def_celsius,
     def_centigrade, def_decibel, def_decibel_prefixed, def_zero_point}

Documents == UNION {[1..n -> DefinitionPairs] : n \in 1..MaxDefs}

ParseInit ==
    /\ pdoc \in Documents
    /\ ppos = 0
    /\ preg = UnitRegistry_new
    /\ pout = Running

\* the scale of every prefixed derivative of a Linear definition is
\* computed without rounding
PrefixProductsFit(pair) ==
    LET one == parse_unit_definition(pair)
    IN  IF one.prefixes = "Standard" /\ one.transformation.variant = "Linear"
        THEN \A i \in DOMAIN SI_PREFIXES :
                MulExact(one.transformation.scale, SI_PREFIXES[i].factor)
        ELSE TRUE

ParseDefinitionOp ==
    /\ pout = Running
    /\ ppos < Len(pdoc)
    /\ PrefixProductsFit(pdoc[ppos + 1])
    /\ LET r == ProcessDefinition(preg, pdoc[ppos + 1])
       IN  /\ preg' = r.registry
           /\ pout' = r.out
    /\ ppos' = ppos + 1
    /\ UNCHANGED pdoc

ParseReturnOp ==
    /\ pout = Running
    /\ ppos = Len(pdoc)
    /\ pout' = Ok(preg)
    /\ UNCHANGED <<pdoc, ppos, preg>>

(***************************************************************************)
(* The Transformation machine: a caller holds an Identity, a Linear or a   *)
(* Decibel transformation and converts values to the base unit and back.   *)
(***************************************************************************)
Transformations ==
    {IdentityTransformation,
     LinearTransformation(Num(2), Num(5)),
     LinearTransformation(Num(1000), Num(0)),
     LinearTransformation(Rat(1, 2), Num(-3)),
     LinearTransformation(Num(1), Num(273)),
     LinearTransformation(Num(4), Num(0)),
     LinearTransformation(Num(-2), Num(1)),
     LinearTransformation(Num(1), Dec(1, 1, 30)),
     DecibelTransformation(Num(1)),
     DecibelTransformation(Num(100))}

\* values handed to to_base and from_base
TransValues ==
    {Num(0), Num(1), Num(9), Num(-10), Rat(1, 2), Num(5000), Num(23),
     Rat(-3, 4), Num(10)}

TransInit ==
    /\ tr \in Transformations
    /\ tlog = [op |-> "new"]

TransNewOp ==
    \E t \in Transformations :
        /\ tr' = t
        /\ tlog' = [op |-> "new"]

TransToBaseOp ==
    \E value \in TransValues :
        /\ ToBaseFits(tr, value)
        /\ tlog' = [op |-> "to_base", value |-> value,
                    out |-> IF tr.kind = "Linear"
                            THEN Linear_to_base(tr, value)
                            ELSE IF tr.kind = "Decibel"
                            THEN Decibel_to_base(tr, value)
                            ELSE Identity_to_base(tr, value)]
        /\ UNCHANGED tr

\* from_base is handed a fresh value or the value to_base has just returned;
\* in the second case the log keeps the value to_base was given
TransFromBaseOp ==
    \E value \in TransValues \cup
                 (IF tlog.op = "to_base" THEN {tlog.out} ELSE {}) :
        /\ FromBaseFits(tr, value)
        /\ tlog' = [op |-> "from_base", value |-> value,
                    out |-> IF tr.kind = "Linear"
                            THEN Linear_from_base(tr, value)
                            ELSE IF tr.kind = "Decibel"
                            THEN Decibel_from_base(tr, value)
                            ELSE Identity_from_base(tr, value),
                    back |-> IF tlog.op = "to_base" /\ value = tlog.out
                             THEN Some(tlog.value) ELSE None]
        /\ UNCHANGED tr

(***************************************************************************)
(* Specifications.  Each machine runs with the other machines idle.        *)
(***************************************************************************)
DimIdle ==
    /\ dim = COUNT
    /\ dlog = [op |-> "const", after |-> COUNT, mul |-> NoMul]

UnitIdle ==
    /\ unit = meter
    /\ ulog = [op |-> "new", self |-> meter, out |-> Ok(meter), depth |-> 0]

QtyIdle ==
    /\ qx = Quantity_new(Num(0), meter)
    /\ qlog = [op |-> "new", made |-> Made(Num(0), meter), out |-> Ok(qx),
               depth |-> 0]

RegIdle ==
    /\ registry = UnitRegistry_new
    /\ rlog = [op |-> "idle"]

ParseIdle ==
    /\ pdoc = <<>>
    /\ ppos = 0
    /\ preg = UnitRegistry_new
    /\ pout = [status |-> "idle", value |-> NoValue]

TransIdle ==
    /\ tr = IdentityTransformation
    /\ tlog = [op |-> "idle"]

Init == DimInit /\ UnitIdle /\ QtyIdle /\ RegIdle /\ ParseIdle
                   /\ TransIdle

Next ==
    \/ DimNewOp /\ UNCHANGED <<unitVars, qtyVars, regVars, parseVars, transVars>>
    \/ DimMulOp /\ UNCHANGED <<unitVars, qtyVars, regVars, parseVars, transVars>>
    \/ DimDivOp /\ UNCHANGED <<unitVars, qtyVars, regVars, parseVars, transVars>>
    \/ DimPowOp /\ UNCHANGED <<unitVars, qtyVars, regVars, parseVars, transVars>>

Spec == Init /\ [][Next]_vars

DisplayNext ==
    \/ DimNewOp /\ UNCHANGED <<unitVars, qtyVars, regVars, parseVars, transVars>>
    \/ DimMulOp /\ UNCHANGED <<unitVars, qtyVars, regVars, parseVars, transVars>>
    \/ DimDivOp /\ UNCHANGED <<unitVars, qtyVars, regVars, parseVars, transVars>>
    \/ DimPowOp /\ UNCHANGED <<unitVars, qtyVars, regVars, parseVars, transVars>>
    \/ DimDisplayOp
            /\ UNCHANGED <<unitVars, qtyVars, regVars, parseVars, transVars>>

SpecDisplay == Init /\ [][DisplayNext]_vars

PowerLawNext ==
    \/ DimNewOp /\ UNCHANGED <<unitVars, qtyVars, regVars, parseVars, transVars>>
    \/ DimMulOp /\ UNCHANGED <<unitVars, qtyVars, regVars, parseVars, transVars>>
    \/ DimDivOp /\ UNCHANGED <<unitVars, qtyVars, regVars, parseVars, transVars>>
    \/ DimPowOp /\ UNCHANGED <<unitVars, qtyVars, regVars, parseVars, transVars>>
    \/ DimPowMulPowOp
            /\ UNCHANGED <<unitVars, qtyVars, regVars, parseVars, transVars>>
    \/ DimMulPowOp
            /\ UNCHANGED <<unitVars, qtyVars, regVars, parseVars, transVars>>
    \/ DimMulSelfOp
            /\ UNCHANGED <<unitVars, qtyVars, regVars, parseVars, transVars>>

SpecPowerLaw == Init /\ [][PowerLawNext]_vars

UnitMachineInit == DimIdle /\ UnitInit /\ QtyIdle /\ RegIdle /\ ParseIdle
                   /\ TransIdle

UnitNext ==
    \/ UnitNewOp /\ UNCHANGED <<dimVars, qtyVars, regVars, parseVars, transVars>>
    \/ UnitMulOp /\ UNCHANGED <<dimVars, qtyVars, regVars, parseVars, transVars>>
    \/ UnitDivOp /\ UNCHANGED <<dimVars, qtyVars, regVars, parseVars, transVars>>
    \/ UnitPowOp /\ UNCHANGED <<dimVars, qtyVars, regVars, parseVars, transVars>>

SpecUnit == UnitMachineInit /\ [][UnitNext]_vars

QtyMachineInit == DimIdle /\ UnitIdle /\ QtyInit /\ RegIdle /\ ParseIdle
                   /\ TransIdle

QtyNext ==
    \/ QtyNewOp /\ UNCHANGED <<dimVars, unitVars, regVars, parseVars, transVars>>
    \/ QtyMagnitudeAsOp /\ UNCHANGED <<dimVars, unitVars, regVars, parseVars, transVars>>
    \/ QtyPowOp /\ UNCHANGED <<dimVars, unitVars, regVars, parseVars, transVars>>
    \/ QtyAddOp /\ UNCHANGED <<dimVars, unitVars, regVars, parseVars, transVars>>
    \/ QtySubOp /\ UNCHANGED <<dimVars, unitVars, regVars, parseVars, transVars>>
    \/ QtyMulOp /\ UNCHANGED <<dimVars, unitVars, regVars, parseVars, transVars>>
    \/ QtyDivOp /\ UNCHANGED <<dimVars, unitVars, regVars, parseVars, transVars>>

SpecQty == QtyMachineInit /\ [][QtyNext]_vars

\* the Quantity machine with scalar arithmetic only
ScalarNext ==
    \/ QtyNewOp /\ UNCHANGED <<dimVars, unitVars, regVars, parseVars, transVars>>
    \/ QtyMagnitudeAsOp
            /\ UNCHANGED <<dimVars, unitVars, regVars, parseVars, transVars>>
    \/ QtyScalarMulOp
            /\ UNCHANGED <<dimVars, unitVars, regVars, parseVars, transVars>>
    \/ QtyScalarDivOp
            /\ UNCHANGED <<dimVars, unitVars, regVars, parseVars, transVars>>

SpecScalar == QtyMachineInit /\ [][ScalarNext]_vars

RegMachineInit ==
    DimIdle /\ UnitIdle /\ QtyIdle /\ RegInit /\ ParseIdle /\ TransIdle

RegNext ==
    \/ RegRegisterOp /\ UNCHANGED <<dimVars, unitVars, qtyVars, parseVars, transVars>>
    \/ RegGetOp /\ UNCHANGED <<dimVars, unitVars, qtyVars, parseVars, transVars>>
    \/ RegContainsOp /\ UNCHANGED <<dimVars, unitVars, qtyVars, parseVars, transVars>>
    \/ RegUnitNamesOp /\ UNCHANGED <<dimVars, unitVars, qtyVars, parseVars, transVars>>
    \/ RegNewFromRegistryOp
            /\ UNCHANGED <<dimVars, unitVars, qtyVars, parseVars, transVars>>

SpecReg == RegMachineInit /\ [][RegNext]_vars

WidthMachineInit ==
    /\ WidthInit /\ UnitIdle /\ QtyIdle /\ RegIdle /\ ParseIdle /\ TransIdle

WidthNext ==
    \/ WidthMulOp /\ UNCHANGED <<unitVars, qtyVars, regVars, parseVars, transVars>>
    \/ WidthDivOp /\ UNCHANGED <<unitVars, qtyVars, regVars, parseVars, transVars>>
    \/ WidthPowOp /\ UNCHANGED <<unitVars, qtyVars, regVars, parseVars, transVars>>

SpecWidth == WidthMachineInit /\ [][WidthNext]_vars

ParseMachineInit ==
    DimIdle /\ UnitIdle /\ QtyIdle /\ RegIdle /\ ParseInit /\ TransIdle

ParseNext ==
    \/ ParseDefinitionOp /\ UNCHANGED <<dimVars, unitVars, qtyVars, regVars, transVars>>
    \/ ParseReturnOp /\ UNCHANGED <<dimVars, unitVars, qtyVars, regVars, transVars>>

SpecParse == ParseMachineInit /\ [][ParseNext]_vars

TransMachineInit ==
    DimIdle /\ UnitIdle /\ QtyIdle /\ RegIdle /\ ParseIdle /\ TransInit

TransNext ==
    \/ TransNewOp
            /\ UNCHANGED <<dimVars, unitVars, qtyVars, regVars, parseVars>>
    \/ TransToBaseOp
            /\ UNCHANGED <<dimVars, unitVars, qtyVars, regVars, parseVars>>
    \/ TransFromBaseOp
            /\ UNCHANGED <<dimVars, unitVars, qtyVars, regVars, parseVars>>

SpecTrans == TransMachineInit /\ [][TransNext]_vars

(***************************************************************************)
(* Properties.                                                             *)
(***************************************************************************)
\* the canonical form of the data model: count is 1 exactly when the other
\* nine exponents are all zero, and 0 otherwise
Canonical(d) == IF NonCountZero(d) THEN d[Count] = 1 ELSE d[Count] = 0

\* Decibel, or Linear with a non-zero offset
LogOrBiased(u) ==
    IF u.transformation.kind = "Linear"
    THEN u.transformation.offset # Num(0)
    ELSE u.transformation.kind = "Decibel"

\* the scale of a scale-only unit, Identity counting as 1
ClaimedScale(u) ==
    IF u.transformation.kind = "Identity" THEN Num(1)
    ELSE u.transformation.scale

\* C1: every Dimension obtained through the public interface is canonical,
\* and Dimension::new on its own vector returns it unchanged.
C1_Canonical == Canonical(dim) /\ Dimension_new(dim) = dim

\* a product with COUNT whose raw sum carries both a non-zero axis and count 1
C1_Witness ==
    /\ dlog.op = "mul"
    /\ dlog.arg = COUNT
    /\ ~NonCountZero(dlog.before)
    /\ dim = dlog.before

\* C2: a div by b right after a mul by the same b gives back the Dimension
\* the mul was applied to.
C2_MulDivInverse ==
    (dlog.op = "div" /\ dlog.mul.op = "mul" /\ dlog.mul.arg = dlog.arg)
        => dlog.after = dlog.mul.before

\* b is the inverse of a: the intermediate product collapsed to dimensionless
C2_Witness ==
    /\ dlog.op = "div"
    /\ dlog.mul.op = "mul"
    /\ dlog.mul.arg = dlog.arg
    /\ dlog.mul.before # COUNT
    /\ dlog.before = COUNT
    /\ dlog.after = dlog.mul.before

\* C3: for scale-only units the dimension of a.multiply(b) is
\* a.dimension.multiply(b.dimension) and the dimension of a.divide(b) is
\* a.dimension.divide(b.dimension).
C3_CompositeDimension ==
    /\ (ulog.op = "mul" /\ ScaleOnly(ulog.self) /\ ScaleOnly(ulog.rhs)) =>
            /\ ulog.out.status = "ok"
            /\ ulog.out.value.dimensionality =
                    Dimension_mul(ulog.self.dimensionality,
                                  ulog.rhs.dimensionality)
    /\ (ulog.op = "div" /\ ScaleOnly(ulog.self) /\ ScaleOnly(ulog.rhs)) =>
            /\ ulog.out.status = "ok"
            /\ ulog.out.value.dimensionality =
                    Dimension_div(ulog.self.dimensionality,
                                  ulog.rhs.dimensionality)

\* C4: for scale-only units a.multiply(b) and a.divide(b) carry a Linear
\* transformation with offset 0 and scale scale_a * scale_b, respectively
\* scale_a / scale_b, Identity counting as scale 1.
C4_CompositeTransformation ==
    /\ (ulog.op = "mul" /\ ScaleOnly(ulog.self) /\ ScaleOnly(ulog.rhs)) =>
            /\ ulog.out.status = "ok"
            /\ ulog.out.value.transformation =
                    LinearTransformation(
                        F64Mul(ClaimedScale(ulog.self), ClaimedScale(ulog.rhs)),
                        Num(0))
    /\ (ulog.op = "div" /\ ScaleOnly(ulog.self) /\ ScaleOnly(ulog.rhs)) =>
            /\ ulog.out.status = "ok"
            /\ ulog.out.value.transformation =
                    LinearTransformation(
                        F64Div(ClaimedScale(ulog.self), ClaimedScale(ulog.rhs)),
                        Num(0))

\* (kilometer * minute) / minute has scale 60000 / 60
C4_Witness ==
    /\ ulog.op = "div"
    /\ ulog.self = Unit_mul(kilometer, minute).value
    /\ ulog.rhs = minute
    /\ ulog.out.status = "ok"
    /\ ulog.out.value.transformation = LinearTransformation(Num(1000), Num(0))

\* C5: the Unit composition made by a Quantity mul or div panics exactly when
\* either operand's unit is Decibel or biased Linear, and Quantity pow panics
\* exactly when the quantity's unit is; in every other case a result comes
\* back.
C5_CompositionAborts ==
    /\ (qlog.op = "mul" \/ qlog.op = "div") =>
            IF LogOrBiased(qlog.self.unit) \/ LogOrBiased(qlog.other.unit)
            THEN qlog.unitOut = Panic
            ELSE qlog.unitOut.status = "ok"
    /\ qlog.op = "pow" =>
            IF LogOrBiased(qlog.self.unit)
            THEN qlog.out = Panic
            ELSE qlog.out.status = "ok"

\* a scale-only unit divided by a biased one
C5_Witness ==
    /\ qlog.op = "div"
    /\ qlog.self.unit = kilometer
    /\ qlog.other.unit = centigrade
    /\ qlog.unitOut = Panic

\* C6: for a scale-only unit of any non-zero scale, q.power(n) has base
\* magnitude q.base_magnitude^n and unit q.unit.power(n).
C6_PowerMagnitude ==
    (qlog.op = "pow" /\ ScaleOnly(qlog.self.unit)) =>
        /\ qlog.out.status = "ok"
        /\ qlog.out.value.magnitude = F64Pow(qlog.self.magnitude, qlog.power)
        /\ qlog.out.value.unit = Unit_pow(qlog.self.unit, qlog.power).value

\* C7: for scale-only units a * b and a / b have the product, respectively
\* quotient, of the base magnitudes and the unit a.unit.multiply(b.unit),
\* respectively a.unit.divide(b.unit); otherwise the call panics as the Unit
\* composition does.
C7_QuantityMulDiv ==
    /\ qlog.op = "mul" =>
            IF LogOrBiased(qlog.self.unit) \/ LogOrBiased(qlog.other.unit)
            THEN qlog.out = Panic /\ qlog.unitOut = Panic
            ELSE qlog.out =
                    Ok([magnitude |-> F64Mul(qlog.self.magnitude,
                                             qlog.other.magnitude),
                        unit |-> qlog.unitOut.value])
    /\ qlog.op = "div" =>
            IF LogOrBiased(qlog.self.unit) \/ LogOrBiased(qlog.other.unit)
            THEN qlog.out = Panic /\ qlog.unitOut = Panic
            ELSE qlog.out =
                    Ok([magnitude |-> F64Div(qlog.self.magnitude,
                                             qlog.other.magnitude),
                        unit |-> qlog.unitOut.value])

\* 10 minute / 2 minute has base magnitude 600 / 120 and a unit of scale
\* 60 / 60
C7_Witness ==
    /\ qlog.op = "div"
    /\ qlog.self = Quantity_new(Num(10), minute)
    /\ qlog.other = Quantity_new(Num(2), minute)
    /\ qlog.out.status = "ok"
    /\ qlog.out.value.magnitude = Num(5)
    /\ qlog.out.value.unit = qlog.unitOut.value
    /\ qlog.out.value.unit.transformation = LinearTransformation(Num(1), Num(0))

\* C8: + and - panic when the operands' dimensions differ; otherwise the
\* result has the sum, respectively difference, of the base magnitudes and
\* the left operand's unit.
C8_QuantityAddSub ==
    /\ qlog.op = "add" =>
            IF qlog.self.unit.dimensionality # qlog.other.unit.dimensionality
            THEN qlog.out = Panic
            ELSE qlog.out =
                    Ok([magnitude |-> F64Add(qlog.self.magnitude,
                                             qlog.other.magnitude),
                        unit |-> qlog.self.unit])
    /\ qlog.op = "sub" =>
            IF qlog.self.unit.dimensionality # qlog.other.unit.dimensionality
            THEN qlog.out = Panic
            ELSE qlog.out =
                    Ok([magnitude |-> F64Sub(qlog.self.magnitude,
                                             qlog.other.magnitude),
                        unit |-> qlog.self.unit])

\* 5 meter + 2 kilometer is 2005 in base representation and keeps meter
C8_Witness ==
    /\ qlog.op = "add"
    /\ qlog.self = Quantity_new(Num(5), meter)
    /\ qlog.other = Quantity_new(Num(2), kilometer)
    /\ qlog.out = Ok([magnitude |-> Num(2005), unit |-> meter])

\* C9: magnitude_as returns UnitConversionError{expected = the quantity's
\* dimension, got = the target's} exactly when the two dimensions differ,
\* and target.from_base(base magnitude) otherwise; it never panics.
C9_MagnitudeAs ==
    qlog.op = "magnitude_as" =>
        IF qlog.self.unit.dimensionality # qlog.target.dimensionality
        THEN qlog.out = Err([kind |-> "UnitsConversionError",
                             expected |-> qlog.self.unit.dimensionality,
                             got |-> qlog.target.dimensionality])
        ELSE qlog.out = Ok(Unit_from_base(qlog.target, qlog.self.magnitude))

\* a length asked for in a unit of time
C9_Witness ==
    /\ qlog.op = "magnitude_as"
    /\ qlog.self.unit.dimensionality = LENGTH
    /\ qlog.target = minute
    /\ qlog.out.status = "err"
    /\ qlog.out.value.expected = LENGTH
    /\ qlog.out.value.got = TIME

\* C10: Quantity::new(m, u) stores u.to_base(m), so reading it back in a unit
\* t of the same dimension gives t.from_base(u.to_base(m)); 5000 meter reads
\* as 5 kilometer and 5 kilometer as 5000 meter.
C10_NewStoresBase ==
    /\ qlog.op = "new" =>
            qlog.out.value.magnitude = Unit_to_base(qlog.made.u, qlog.made.m)
    /\ (/\ qlog.op = "magnitude_as"
        /\ qlog.depth = 0
        /\ qlog.made.u.dimensionality = qlog.target.dimensionality) =>
            /\ qlog.out = Ok(Unit_from_base(qlog.target,
                                Unit_to_base(qlog.made.u, qlog.made.m)))
            /\ (qlog.made = Made(Num(5000), meter) /\ qlog.target = kilometer)
                    => qlog.out = Ok(Num(5))
            /\ (qlog.made = Made(Num(5), kilometer) /\ qlog.target = meter)
                    => qlog.out = Ok(Num(5000))

\* 5 kilometer read back in meter
C10_Witness ==
    /\ qlog.op = "magnitude_as"
    /\ qlog.depth = 0
    /\ qlog.made = Made(Num(5), kilometer)
    /\ qlog.target = meter
    /\ qlog.out = Ok(Num(5000))

\* C11: register(unit) on a registry that already holds a unit of that name
\* returns the DuplicateUnitName error (RegistryAlreadyContainsUnit) and
\* leaves the registry as it was: the same names, and under that name the
\* unit registered first.
C11_DuplicateRejected ==
    (rlog.op = "register" /\ rlog.unit.name \in DOMAIN rlog.before) =>
        /\ rlog.out.status = "err"
        /\ rlog.out.value.kind = "RegistryAlreadyContainsUnit"
        /\ rlog.out.value.name = rlog.unit.name
        /\ DOMAIN registry = DOMAIN rlog.before
        /\ \A n \in DOMAIN registry : registry[n] = rlog.before[n]

\* a different unit was offered under a registered name, next to other entries
C11_Witness ==
    /\ rlog.op = "register"
    /\ rlog.unit.name \in DOMAIN rlog.before
    /\ rlog.before[rlog.unit.name] # rlog.unit
    /\ Cardinality(DOMAIN registry) >= 2
    /\ registry[rlog.unit.name] = rlog.before[rlog.unit.name]

\* C12: whatever register / get / contains / unit_names calls follow, an
\* entry of the registry is never removed or replaced: a name once
\* registered stays contained and get keeps returning the unit registered
\* first under it.
C12_OnlyAdded ==
    [][\A n \in DOMAIN registry :
          /\ n \in DOMAIN registry'
          /\ registry'[n] = registry[n]
          /\ (rlog'.op = "contains" /\ rlog'.name = n) => rlog'.out = TRUE
          /\ (rlog'.op = "get" /\ rlog'.name = n) =>
                rlog'.out = [some |-> registry[n]]
          /\ rlog'.op = "unit_names" => n \in rlog'.out]_vars

\* get on a registry of several entries returns the unit that was registered
\* under the name, here the one of the two units called meter that came first
C12_Witness ==
    /\ rlog.op = "get"
    /\ rlog.name = "meter"
    /\ rlog.out = [some |-> nautical_mile_as_meter]
    /\ "kilometer" \in DOMAIN registry

\* the names a definition declares: its own and, with standard prefixes,
\* one per row of the prefix table
DeclaredNames(pair) ==
    {pair.identifier} \cup
    (IF pair.prefixes = "standard"
     THEN {SI_PREFIXES[k].prefix \o pair.identifier : k \in DOMAIN SI_PREFIXES}
     ELSE {})

\* no definition of the document declares a name that an earlier one declared
DistinctNames(doc) ==
    \A i, j \in DOMAIN doc :
        i < j => DeclaredNames(doc[i]) \cap DeclaredNames(doc[j]) = {}

\* the definition as written asks for standard prefixes on a Decibel unit or
\* on a Linear unit with a non-zero offset
DeclaresIncompatiblePrefixes(pair) ==
    /\ pair.prefixes = "standard"
    /\ \/ pair.transformation.rule = "decibel_transformation"
       \/ /\ pair.transformation.rule = "linear_transformation"
          /\ Len(pair.transformation.numbers) = 2
          /\ pair.transformation.numbers[2] # Num(0)

\* C13: a document of otherwise valid definitions one of which combines
\* standard prefixes with a Decibel transformation or with a Linear
\* transformation of non-zero offset is refused with a parse error, wherever
\* the definition stands, and no prefixed derivative of that definition has
\* been registered when the error is returned.
C13_IncompatiblePrefixes ==
    (/\ pout.status \notin {"idle", "running"}
     /\ DistinctNames(pdoc)
     /\ \E i \in DOMAIN pdoc : DeclaresIncompatiblePrefixes(pdoc[i])) =>
        /\ pout.status = "err"
        /\ pout.value.kind = "PestParseError"
        /\ DeclaresIncompatiblePrefixes(pdoc[ppos])
        /\ \A k \in DOMAIN SI_PREFIXES :
              (SI_PREFIXES[k].prefix \o pdoc[ppos].identifier)
                  \notin DOMAIN preg

\* C14: a definition whose name is already registered, as an earlier
\* definition's name or as one of its prefixed derivatives, ends the parse
\* with the registry's duplicate-name error as a failure value: no abort and
\* no registry.
C14_DuplicateIsFailureValue ==
    (/\ pout.status \notin {"idle", "running"}
     /\ ppos >= 2
     /\ \E j \in 1..(ppos - 1) :
           pdoc[ppos].identifier \in DeclaredNames(pdoc[j])) =>
        /\ pout.status = "err"
        /\ pout.value.kind = "RegistryAlreadyContainsUnit"
        /\ pout.value.name = pdoc[ppos].identifier

\* the definition as written has an Identity transformation or a Linear one
\* whose offset is absent or zero
DeclaresScaleOnly(pair) ==
    \/ pair.transformation.rule \in {"absent", "identity_transformation"}
    \/ /\ pair.transformation.rule = "linear_transformation"
       /\ \/ Len(pair.transformation.numbers) = 1
          \/ /\ Len(pair.transformation.numbers) = 2
             /\ pair.transformation.numbers[2] = Num(0)

DeclaredScale(pair) ==
    IF pair.transformation.rule = "linear_transformation"
    THEN pair.transformation.numbers[1]
    ELSE Num(1)

\* C15: after a successful parse every definition with standard prefixes
\* and an Identity or zero-offset Linear transformation has its base unit
\* registered and, for each of the 24 rows of the prefix table (Quetta 1e30
\* down to quecto 1e-30), a unit named <long prefix><base name> with the
\* base unit's dimension and the transformation Linear(baseScale * factor,
\* 0), baseScale being 1 for Identity and the declared scale for Linear.
C15_PrefixExpansion ==
    /\ Len(SI_PREFIXES) = 24
    /\ SI_PREFIXES[1].prefix = "Quetta" /\ SI_PREFIXES[1].factor = Dec(1, 1, 30)
    /\ SI_PREFIXES[10].prefix = "kilo" /\ SI_PREFIXES[10].factor = Num(1000)
    /\ SI_PREFIXES[24].prefix = "quecto"
    /\ SI_PREFIXES[24].factor = Dec(1, 1, -30)
    /\ pout.status = "ok" =>
        \A i \in DOMAIN pdoc :
            (pdoc[i].prefixes = "standard" /\ DeclaresScaleOnly(pdoc[i])) =>
                /\ pdoc[i].identifier \in DOMAIN pout.value
                /\ \A k \in DOMAIN SI_PREFIXES :
                    LET name == SI_PREFIXES[k].prefix \o pdoc[i].identifier
                    IN  /\ name \in DOMAIN pout.value
                        /\ pout.value[name].name = name
                        /\ pout.value[name].dimensionality =
                              pout.value[pdoc[i].identifier].dimensionality
                        /\ pout.value[name].transformation =
                              [kind |-> "Linear",
                               scale |-> F64Mul(DeclaredScale(pdoc[i]),
                                                SI_PREFIXES[k].factor),
                               offset |-> Num(0)]

\* meter and byte were both expanded: kilometer has scale 1000 and
\* kilobyte scale 8000
C15_Witness ==
    /\ pout.status = "ok"
    /\ pdoc = <<def_meter, def_byte>>
    /\ pout.value["kilometer"].transformation =
          [kind |-> "Linear", scale |-> Num(1000), offset |-> Num(0)]
    /\ pout.value["kilobyte"].transformation =
          [kind |-> "Linear", scale |-> Num(8000), offset |-> Num(0)]
    /\ Cardinality(DOMAIN pout.value) = 50

\* the exponent the claim gives to an axis: the sum, over the terms naming
\* it, of the term's exponent (1 when none is written), negated when the
\* pair just before the term is the operator `/`
RECURSIVE ClaimedAxisExponent(_, _, _)
ClaimedAxisExponent(pairs, i, fundamental) ==
    IF i > Len(pairs) THEN 0
    ELSE ClaimedAxisExponent(pairs, i + 1, fundamental) +
         (IF pairs[i].rule = "dimension_term"
             /\ pairs[i].fundamental = fundamental
          THEN (IF i > 1 /\ pairs[i - 1] = [rule |-> "operator", text |-> "/"]
                THEN -1 ELSE 1) *
               (IF pairs[i].exponent = <<>> THEN 1 ELSE pairs[i].exponent[1])
          ELSE 0)

AxisNames ==
    <<"mass", "length", "time", "current", "temperature",
      "amount of substance", "luminous intensity", "angle", "bit", "count">>

\* the canonical Dimension of the claimed exponents: count is 1 exactly when
\* every other axis is 0
ClaimedDimension(pairs) ==
    LET raw == [a \in 1..10 |-> ClaimedAxisExponent(pairs, 1, AxisNames[a])]
        bare == \A a \in 1..9 : raw[a] = 0
    IN  [a \in 1..10 |-> IF a = 10 THEN (IF bare THEN 1 ELSE 0) ELSE raw[a]]

\* C16: the dimension of every unit a definition registers is the flat
\* left-to-right reduction of its dimension expression: each term
\* contributes its axis raised to its exponent (1 by default), negated
\* exactly when the operator just before the term is `/`; a `/` reaches
\* only the one term after it.
C16_FlatReduction ==
    \A i \in DOMAIN pdoc :
        (i <= ppos /\ (i < ppos \/ pout.status \in {"running", "ok", "err"})) =>
            /\ pdoc[i].identifier \in DOMAIN preg
            /\ (DistinctNames(pdoc) =>
                  preg[pdoc[i].identifier].dimensionality =
                      ClaimedDimension(pdoc[i].dimension))

\* length / time * mass keeps mass positive, and newton's time^2 after `/`
\* is negated
C16_Witness ==
    /\ pout.status = "ok"
    /\ pdoc = <<def_flux, def_newton>>
    /\ preg["flux"].dimensionality = <<1, 1, -1, 0, 0, 0, 0, 0, 0, 0>>
    /\ preg["newton"].dimensionality = <<1, 1, -2, 0, 0, 0, 0, 0, 0, 0>>
    /\ preg["kilonewton"].dimensionality = <<1, 1, -2, 0, 0, 0, 0, 0, 0, 0>>

\* 1e-3 is the f64 nearest to 1/1000, and 1000.0 * 1e-3 is 1.0 in f64 too
gram == Unit_new_linear("gram", MASS, Rat(1, 1000), Num(0))

\* (Quantity(1000, gram) * Quantity(4, meter).pow(2)
\*    / Quantity(1, second).pow(2)).magnitude_as(joule)
JouleConversion ==
    magnitude_as(
        Quantity_div(
            Quantity_mul(Quantity_new(Num(1000), gram),
                         Quantity_pow(Quantity_new(Num(4), meter), 2).value
                        ).value,
            Quantity_pow(Quantity_new(Num(1), second), 2).value).value,
        joule)

\* C17: the quotient of two Quantities of scale-only units converts to any
\* unit whose dimension is the quotient of the operands' dimensions; in
\* particular 1000 gram * (4 meter)^2 / (1 second)^2 converts to joule and
\* is 16 joule.
C17_QuotientConverts ==
    (/\ qlog.op = "magnitude_as"
     /\ qlog.via.op = "div"
     /\ ScaleOnly(qlog.via.left) /\ ScaleOnly(qlog.via.right)
     /\ qlog.target.dimensionality =
           Dimension_div(qlog.via.left.dimensionality,
                         qlog.via.right.dimensionality)) =>
        /\ qlog.out.status = "ok"
        /\ JouleConversion = Ok(Num(16))

\* the exponents of d multiplied by n, made canonical
ClaimedPowerDimension(d, n) ==
    LET bare == \A a \in 1..9 : d[a] * n = 0
    IN  [a \in 1..10 |-> IF a = 10 THEN (IF bare THEN 1 ELSE 0) ELSE d[a] * n]

\* x multiplied by itself n times, the reciprocal of that for a negative n
RECURSIVE ClaimedPower(_, _)
ClaimedPower(x, n) ==
    IF n = 0 THEN Num(1)
    ELSE IF n > 0 THEN F64Mul(x, ClaimedPower(x, n - 1))
    ELSE F64Div(Num(1), ClaimedPower(x, -n))

\* (Quantity(1, kilometer.pow(3)) / Quantity(1, meter.pow(3))).magnitude:
\* the cube ratio of test_arithmetic_operations with a scale an f64 holds
\* (the test's 1e-2 is not one, and the test accepts 1e6 within 1e-5)
CubeRatio ==
    Quantity_div(Quantity_new(Num(1), Unit_pow(kilometer, 3).value),
                 Quantity_new(Num(1), Unit_pow(meter, 3).value)
                ).value.magnitude

\* C18: for a scale-only unit u and an integer n, u.power(n) has the
\* dimension u.dimension.power(n) and, when u is Linear, the transformation
\* Linear(scale^n, 0); 1 kilometer^3 against 1 meter^3 is 1e9.
C18_UnitPower ==
    (ulog.op = "pow" /\ ScaleOnly(ulog.self)) =>
        /\ ulog.out.status = "ok"
        /\ ulog.out.value.dimensionality =
              ClaimedPowerDimension(ulog.self.dimensionality, ulog.power)
        /\ ulog.self.transformation.kind = "Linear" =>
              ulog.out.value.transformation =
                  [kind |-> "Linear",
                   scale |-> ClaimedPower(ulog.self.transformation.scale,
                                          ulog.power),
                   offset |-> Num(0)]
        /\ CubeRatio = Dec(1, 1, 9)

\* kilometer squared has dimension length^2 and scale 1e6
C18_Witness ==
    /\ ulog.op = "pow"
    /\ ulog.self = kilometer
    /\ ulog.power = 2
    /\ ulog.out.status = "ok"
    /\ ulog.out.value.dimensionality = <<0, 2, 0, 0, 0, 0, 0, 0, 0, 0>>
    /\ ulog.out.value.transformation.scale = Num(1000000)

\* C19: for every Dimension a, a.power(0) is the dimensionless identity and
\* a.power(1) is a, a dimensionless a included.
C19_PowerZeroOne ==
    /\ (dlog.op = "pow" /\ dlog.arg = 0) =>
            dlog.after = <<0, 0, 0, 0, 0, 0, 0, 0, 0, 1>>
    /\ (dlog.op = "pow" /\ dlog.arg = 1) => dlog.after = dlog.before

\* a composite Dimension was raised to the power 0
C19_Witness ==
    /\ dlog.op = "pow"
    /\ dlog.arg = 0
    /\ dlog.before[1] = 1 /\ dlog.before[2] = -1
    /\ dlog.after = COUNT

\* from_base was applied to the value to_base returned, for an Identity
\* transformation or a Linear one with a non-zero scale
RoundTrip ==
    /\ tlog.op = "from_base"
    /\ tlog.back # None
    /\ tr.kind = "Linear" => tr.scale # Num(0)

\* C20 as claimed: for every Linear transformation with a non-zero scale and
\* any offset, and for Identity, from_base(to_base(v)) == v for every v.
C20_RoundTripExact == RoundTrip => tlog.out = tlog.back.some

\* the sum v * scale + offset of to_base was computed without rounding
SumUnrounded(t, v) ==
    IF t.kind = "Linear"
    THEN /\ ~Absorbs(F64Mul(v, t.scale), t.offset)
         /\ ~Absorbs(t.offset, F64Mul(v, t.scale))
    ELSE TRUE

\* C20 amended: from_base(to_base(v)) == v for Identity and for every Linear
\* transformation with a non-zero scale whenever the f64 operations of the
\* two calls round nothing; a sum that rounds, as v * scale + offset does
\* for an offset beyond 1e17 times v * scale, loses v.
C20_RoundTripUnrounded ==
    (RoundTrip /\ SumUnrounded(tr, tlog.back.some)) =>
        tlog.out = tlog.back.some

\* Linear(2, 5): 9 goes to 23 and comes back as 9
C20_Witness ==
    /\ RoundTrip
    /\ tr = LinearTransformation(Num(2), Num(5))
    /\ tlog.back = Some(Num(9))
    /\ tlog.value = Num(23)
    /\ tlog.out = Num(9)

\* C21: multiplying or dividing a Quantity by a plain number is legal for
\* every unit, Decibel and biased Linear included: the base magnitude is
\* multiplied, respectively divided, by the number and the unit (name,
\* dimension, transformation) stays as it was.
C21_ScalarMulDiv ==
    /\ qlog.op = "mul_scalar" =>
            /\ qlog.out.status = "ok"
            /\ qlog.out.value.magnitude =
                  F64Mul(qlog.self.magnitude, qlog.scalar)
            /\ qlog.out.value.unit = qlog.self.unit
    /\ qlog.op = "div_scalar" =>
            /\ qlog.out.status = "ok"
            /\ qlog.out.value.magnitude =
                  F64Div(qlog.self.magnitude, qlog.scalar)
            /\ qlog.out.value.unit = qlog.self.unit

\* 10 decibel, base magnitude 10, divided by 2 is base magnitude 5 in decibel
C21_Witness ==
    /\ qlog.op = "div_scalar"
    /\ qlog.self.unit = decibel
    /\ qlog.self.magnitude = Num(10)
    /\ qlog.scalar = Num(2)
    /\ qx = [magnitude |-> Num(5), unit |-> decibel]

\* C22: new_from_registry(registry, m, name) returns the unknown-unit
\* failure value (RegistryDoesNotContainUnit) carrying the requested name
\* when the registry holds no unit of that name and otherwise the Quantity
\* that Quantity::new(m, registry.get(name)) builds; the registry is left as
\* it was in both cases.
C22_NewFromRegistry ==
    rlog.op = "new_from_registry" =>
        /\ registry = rlog.before
        /\ IF rlog.name \in DOMAIN rlog.before
           THEN rlog.out = Ok(Quantity_new(rlog.magnitude,
                                           rlog.before[rlog.name]))
           ELSE /\ rlog.out.status = "err"
                /\ rlog.out.value.kind = "RegistryDoesNotContainUnit"
                /\ rlog.out.value.name = rlog.name

\* 5 kilometer looked up by name is stored as 5000 with the unit kilometer
C22_Witness ==
    /\ rlog.op = "new_from_registry"
    /\ rlog.name = "kilometer"
    /\ rlog.magnitude = Num(5)
    /\ rlog.out = Ok([magnitude |-> Num(5000), unit |-> kilometer])
    /\ registry = rlog.before

\* C23: a Decibel transformation with reference p0 takes a value of 10*k to
\* the base value 10^k * p0 and takes the base value 10^k * p0 back to 10*k;
\* with p0 = 1, to_base(0) is 1, to_base(10) is 10, from_base(1) is 0 and
\* from_base(10) is 10
C23_DecibelValues ==
    tr.kind = "Decibel" =>
        /\ tlog.op = "to_base" =>
              /\ \A k \in Decades :
                    tlog.value = Num(10 * k) =>
                        tlog.out = F64Mul(Dec(1, 1, k), tr.p0)
              /\ tr.p0 = Num(1) /\ tlog.value = Num(0) => tlog.out = Num(1)
              /\ tr.p0 = Num(1) /\ tlog.value = Num(10) => tlog.out = Num(10)
        /\ tlog.op = "from_base" =>
              /\ \A k \in LogDecades :
                    tlog.value = F64Mul(Dec(1, 1, k), tr.p0) =>
                        tlog.out = Num(10 * k)
              /\ tr.p0 = Num(1) /\ tlog.value = Num(1) => tlog.out = Num(0)
              /\ tr.p0 = Num(1) /\ tlog.value = Num(10) => tlog.out = Num(10)

\* with p0 = 1, 10 decibel went to the base value 10 and that base value came
\* back as 10 decibel
C23_Witness ==
    /\ tr = DecibelTransformation(Num(1))
    /\ tlog.op = "from_base"
    /\ tlog.value = Num(10)
    /\ tlog.out = Num(10)
    /\ tlog.back = Some(Num(10))

\* the Linear transformation a definition declares: the first number is the
\* scale, the second, when written, the offset
DeclaredLinear(pair) ==
    [kind |-> "Linear",
     scale |-> pair.transformation.numbers[1],
     offset |-> IF Len(pair.transformation.numbers) = 2
                THEN pair.transformation.numbers[2] ELSE Num(0)]

\* C24: the unit registered for a definition declaring linear(scale: s,
\* offset: o) has the transformation Linear{s, o}, and for linear(scale: s)
\* Linear{s, 0}, for every s and o, s = 0 included.
C24_DeclaredLinearStored ==
    DistinctNames(pdoc) =>
        \A i \in 1..ppos :
            (/\ pdoc[i].transformation.rule = "linear_transformation"
             /\ pdoc[i].identifier \in DOMAIN preg) =>
                preg[pdoc[i].identifier].transformation =
                    DeclaredLinear(pdoc[i])

\* r is the exact sum a + b
ExactSumIs(r, a, b) == ~AddOverflows(a, b) /\ r = a + b

\* r is the exact difference a - b
ExactDifferenceIs(r, a, b) == ~SubOverflows(a, b) /\ r = a - b

\* r is the exact product of the exponent x by the i64 n; beyond i32 the
\* product of a non-zero x is an i32 only for x = -1 and n = 2^31
ExactProductIs(r, x, n) ==
    IF FitsI32(n) THEN ~MulOverflows(x, n.lo) /\ r = x * n.lo
    ELSE IF x = 0 THEN r = 0
    ELSE x = -1 /\ n = I64(0, I32_MIN) /\ r = I32_MIN

\* C25: Dimension mul, div and pow have no error outcome: for all i32
\* exponents and every i64 power they return a Dimension whose first nine
\* exponents are the exact elementwise sum, difference or product, with no
\* abort and no different vector when an exponent leaves i32 or the power is
\* narrowed to 32 bits.
C25_TotalAndExact ==
    dlog.op \in {"mul", "div", "pow"} =>
        /\ dlog.out.status = "ok"
        /\ \A i \in 1..(FUNDAMENTALS_NUMBER - 1) :
              CASE dlog.op = "mul" ->
                     ExactSumIs(dlog.out.value[i], dlog.self[i], dlog.arg[i])
                [] dlog.op = "div" ->
                     ExactDifferenceIs(dlog.out.value[i], dlog.self[i],
                                       dlog.arg[i])
                [] dlog.op = "pow" ->
                     ExactProductIs(dlog.out.value[i], dlog.self[i], dlog.arg)

\* the non-zero axes of a Dimension below the axis a
NonZeroBelow(d, a) == {b \in 1..(a - 1) : d[b] # 0}

\* C26: the text of a Dimension lists, in the order mass, length, time,
\* current, temperature, amount of substance, luminous intensity, angle,
\* bit, count, exactly the axes with a non-zero exponent, as the name for
\* the exponent 1 and as [name]^exponent otherwise, joined by " * "; a
\* dimensionless Dimension reads "count", and count is not listed when
\* another exponent is non-zero.
C26_Display ==
    dlog.op = "display" =>
        LET d == dlog.before
            listed == dlog.displayed
        IN  /\ Len(listed) = Cardinality({a \in 1..10 : d[a] # 0})
            /\ \A a \in 1..10 :
                  d[a] # 0 =>
                      listed[Cardinality(NonZeroBelow(d, a)) + 1] =
                          IF d[a] = 1 THEN AxisNames[a]
                          ELSE "[" \o AxisNames[a] \o "]^" \o i32_fmt(d[a])
            /\ dlog.after = Join(listed, " * ")
            /\ (\A a \in 1..9 : d[a] = 0) => dlog.after = "count"
            /\ (\E a \in 1..9 : d[a] # 0) =>
                  \A k \in DOMAIN listed :
                      listed[k] \notin {"count", "[count]^" \o i32_fmt(d[10])}

\* mass * length^2 / time^2 reads as in the test of the display
C26_Witness ==
    /\ dlog.op = "display"
    /\ dlog.before = <<1, 2, -2, 0, 0, 0, 0, 0, 0, 0>>
    /\ dlog.after = "mass * [length]^2 * [time]^-2"

\* C27: for a scale-only unit of any non-zero scale, q.power(2) and q * q
\* have the same base magnitude, the same dimension and the same unit
\* scale, and q.power(1) has the base magnitude of q.
C27_PowerIsRepeatedMul ==
    (qlog.op = "pow" /\ ScaleOnly(qlog.self.unit)) =>
        /\ qlog.power = 2 =>
              LET product == Quantity_mul(qlog.self, qlog.self)
              IN  /\ qlog.out.status = "ok"
                  /\ product.status = "ok"
                  /\ qlog.out.value.magnitude = product.value.magnitude
                  /\ qlog.out.value.unit.dimensionality =
                        product.value.unit.dimensionality
                  /\ ScaleOf(qlog.out.value.unit.transformation) =
                        ScaleOf(product.value.unit.transformation)
        /\ qlog.power = 1 =>
              /\ qlog.out.status = "ok"
              /\ qlog.out.value.magnitude = qlog.self.magnitude

\* C28: the registry a successful parse returns holds exactly the names the
\* document implies: the name of every definition and, for the definitions
\* with prefixes: standard only, its 24 prefixed names; every key is the
\* name of the unit stored under it, and the number of entries is the
\* number of definitions plus 24 for every standard-prefix definition.
C28_ExactlyImpliedNames ==
    pout.status = "ok" =>
        LET standard == {i \in DOMAIN pdoc : pdoc[i].prefixes = "standard"}
        IN  /\ DOMAIN pout.value =
                  UNION {DeclaredNames(pdoc[i]) : i \in DOMAIN pdoc}
            /\ \A i \in DOMAIN pdoc \ standard :
                  DeclaredNames(pdoc[i]) = {pdoc[i].identifier}
            /\ \A key \in DOMAIN pout.value : pout.value[key].name = key
            /\ Cardinality(DOMAIN pout.value) =
                  Len(pdoc) + 24 * Cardinality(standard)

\* meter with standard prefixes and flux without: 26 entries, kilometer among
\* them and no prefixed flux
C28_Witness ==
    /\ pout.status = "ok"
    /\ pdoc = <<def_meter, def_flux>>
    /\ Cardinality(DOMAIN pout.value) = 26
    /\ "kilometer" \in DOMAIN pout.value
    /\ "flux" \in DOMAIN pout.value
    /\ "kiloflux" \notin DOMAIN pout.value

\* C29: for a Dimension a and powers n, m within the bounds,
\* a.pow(n).mul(a.pow(m)) is a.pow(n + m); a.mul(a.pow(m)) is a.pow(1 + m),
\* so a.mul(a.pow(-1)) is the dimensionless COUNT; and a.mul(a) is a.pow(2);
\* also when a or one of the two powers is dimensionless.
C29_ExponentLaw ==
    /\ dlog.op = "pow_mul_pow" =>
          dlog.after = Dimension_pow(dlog.before, dlog.n + dlog.m)
    /\ dlog.op = "mul_pow" =>
          /\ dlog.after = Dimension_pow(dlog.before, 1 + dlog.m)
          /\ dlog.m = -1 => dlog.after = COUNT
    /\ dlog.op = "mul_self" =>
          dlog.after = Dimension_pow(dlog.before, 2)

\* mass / length to the power 0, which is dimensionless, times its square
\* is the square
C29_Witness ==
    /\ dlog.op = "pow_mul_pow"
    /\ dlog.before = Dimension_div(MASS, LENGTH)
    /\ dlog.n = 0
    /\ dlog.m = 2
    /\ dlog.after = <<2, -2, 0, 0, 0, 0, 0, 0, 0, 0>>

====
